---- MODULE Spec2Model ----
(***************************************************************************)
(* State-machine model of the modular Sysco scraper pipeline:              *)
(*   SyscoScraperOrchestrator.run_scraper      (src/scraper/main.py)       *)
(*   BrowserManager session bootstrap          (src/scraper/browser_manager.py) *)
(*   CategoryExtractor pagination crawler      (src/scraper/extractors/category_extractor.py) *)
(*   ProductExtractor.extract_all_fields       (src/scraper/extractors/product_extractor.py) *)
(* The browser-automation driver is the environment: every driver call     *)
(* either returns one of a small set of answers or raises.                 *)
(***************************************************************************)
EXTENDS Integers, Sequences, FiniteSets, TLC

VARIABLES
    config,               \* ScrapingConfig: the knobs the orchestrator reads
    pc,                   \* position of run_scraper and of the callee it is inside
    run_result,           \* "running", or what run_scraper returned: "success" | "failure"
    phase_log,            \* phases entered so far, in order
    close_calls,          \* number of close_browser invocations
    sel,                  \* index into the selector chain being walked
    attempt,              \* polls of the confirm control's disabled attribute so far
    guest_result,         \* "none" | "clicked" | "no_control" | "error"
    zip_result,           \* "none" | "ok" | "no_input" | "no_confirm" | "error"
    setup_result,         \* "none" | "ok" | "failed"  (_setup_sysco_session)
    poll_enabled,         \* the polling loop ended on a poll that read "not disabled"
    lastConfirmClick,     \* the click() issued on the confirm control resolved last, if any
    chain,                \* the selector chain being walked: which locators were queried,
                          \* which one first matched, which one's match was used
    ci,                   \* index of the category _collect_product_urls is at
    category_to_urls_map, \* dict in insertion order: <<[category, urls], ...>>
    page_num,             \* extract_all_product_urls: loop counter
    product_urls,         \* extract_all_product_urls: list accumulated so far
    site_page,            \* which page of the category listing the browser shows
    pages_done,           \* pages processed by the current extract_all_product_urls call
    lastNextClick,        \* disabled attribute of the last 'next' control click() was issued on
    crawl_result,         \* the list extract_all_product_urls returned
    products_to_process,  \* the truncated work list: <<[url, category], ...>>
    mode,                 \* "none" | "async" | "sequential": the dispatch chosen
    tasks,                \* per work item: the state of its scrape_product call
    page_url,             \* URL of the document the one shared page shows
    products,             \* self.products
    select_log,           \* per configured category so far: "crawled" | "skipped"
    all_products_to_scrape, \* _scrape_products: the flattened list before the limit
    csv_rows,             \* the data rows export_products wrote to the output file
    throttling,           \* BrowserManager.throttle: calls, sleeps, and the operation waiting for one
    fx,                   \* one extract_all_fields call, followed locator by locator
    fmt,                  \* one DataFormatter call: its arguments and what it returned
    ex,                   \* one CSVExporter.export_products call and the output file after it
    lk,                   \* one extract_product_links_from_current_page call, locator by locator
    bm                    \* one BrowserManager: what start_browser started, what close_browser closed

bootVars == <<sel, attempt, guest_result, zip_result, setup_result, poll_enabled,
              lastConfirmClick, chain>>
bootLocals == <<attempt, guest_result, zip_result, setup_result, poll_enabled,
                lastConfirmClick, chain>>
runVars  == <<config, pc, run_result, phase_log, close_calls>>
crawlVars == <<ci, category_to_urls_map, page_num, product_urls, site_page, pages_done,
               lastNextClick, crawl_result, select_log>>
scrapeVars == <<all_products_to_scrape, products_to_process, mode, tasks, page_url,
                products>>
\* state of the single-call specifications below; the run leaves it alone
callVars == <<fx, fmt, ex, lk, bm>>
vars     == <<runVars, bootVars, crawlVars, scrapeVars, csv_rows, throttling, callVars>>

----------------------------------------------------------------------------
(* Python values *)

\* None, as returned by get_attribute for a missing attribute
AttrNone == "<None>"

\* bool(x) of an Optional[str]
Truthy(x) == x # AttrNone /\ x # ""

----------------------------------------------------------------------------
(* Program constants *)

\* len(guest_button_selectors)
GuestSelectors == 4
\* len(zip_input_selectors)
ZipInputSelectors == 4
\* len(start_shopping_selectors)
StartShoppingSelectors == 5
\* range(10) of the enable-polling loop
MaxPollAttempts == 10

----------------------------------------------------------------------------
(* Configurations explored *)

BatchSizes  == {1, 2}
MaxProducts == {0, 2}

\* throttle_seconds, in tenths of a second (the default is 0.5)
ThrottleSeconds == {0, 5}

Configs == [enable_async_scraping : BOOLEAN,
            async_batch_size      : BatchSizes,
            max_products          : MaxProducts,
            throttle_seconds      : ThrottleSeconds]

\* no click() issued on a 'next' control yet
NotClicked == "<no click>"

NoClick == [clicked |-> FALSE, polls |-> 0, enabled |-> FALSE]

----------------------------------------------------------------------------
(* Walking a selector chain: `for selector in <list>` over a list literal.  *)
(* A locator matches when its query yields an element (and, for a field,    *)
(* non-blank content); the match is used when the walk ends on it.          *)

\* no call in progress
NoCall == [pc |-> "idle"]

\* ScrapingConfig(): the defaults of the knobs the orchestrator reads
DefaultConfig ==
    [enable_async_scraping |-> FALSE, async_batch_size |-> 3, max_products |-> 10,
     throttle_seconds |-> 5]

\* no throttle() call yet, and no crawl or extraction waiting for one
NoThrottle == [calls |-> 0, slept |-> {}, pending |-> "none"]

\* BrowserManager.throttle
throttle(th, cfg) ==
    [th EXCEPT !.calls = @ + 1,
               !.pending = "none",
               !.slept = IF cfg.throttle_seconds > 0
                         THEN @ \cup {cfg.throttle_seconds} ELSE @]

\* an operation of `kind` ("crawl", "extract") is over and the loop body
\* either calls throttle() or goes on without
AfterOperation(th, cfg, kind, called) ==
    IF called THEN throttle(th, cfg) ELSE [th EXCEPT !.pending = kind]

\* no chain is being walked
NoChain == [name |-> "none", queried |-> <<>>, matched_at |-> 0, last_match |-> 0,
            matches |-> 0, used_at |-> 0, failed |-> 0]

\* the loop is entered
StartChain(name) == [NoChain EXCEPT !.name = name]

\* locator k was queried and did not match (no element, blank content, timeout)
Missed(c, k) == [c EXCEPT !.queried = Append(@, k)]

\* locator k was queried and matched
Matched(c, k) ==
    [c EXCEPT !.queried = Append(@, k), !.matched_at = IF @ = 0 THEN k ELSE @,
              !.last_match = k, !.matches = @ + 1]

\* the match of locator k was used: clicked, or its content returned
Used(c, k) == [c EXCEPT !.used_at = k]

\* a driver call on the matched element raised and the loop's except clause
\* went on to the next locator
Failed(c) == [c EXCEPT !.failed = @ + 1]

\* the objects as constructed, before run_scraper is called
Constructed ==
    /\ run_result = "running"
    /\ phase_log = <<>>
    /\ close_calls = 0
    /\ sel = 0
    /\ attempt = 0
    /\ guest_result = "none"
    /\ zip_result = "none"
    /\ setup_result = "none"
    /\ poll_enabled = FALSE
    /\ lastConfirmClick = NoClick
    /\ chain = NoChain
    /\ ci = 0
    /\ category_to_urls_map = <<>>
    /\ page_num = 0
    /\ product_urls = <<>>
    /\ site_page = 0
    /\ pages_done = 0
    /\ lastNextClick = NotClicked
    /\ crawl_result = <<>>
    /\ products_to_process = <<>>
    /\ mode = "none"
    /\ tasks = <<>>
    /\ page_url = <<>>
    /\ products = <<>>
    /\ select_log = <<>>
    /\ all_products_to_scrape = <<>>
    /\ csv_rows = <<>>
    /\ throttling = NoThrottle

Init ==
    /\ config \in Configs
    /\ pc = "start_browser"
    /\ Constructed
    /\ fx = NoCall
    /\ fmt = NoCall
    /\ ex = NoCall
    /\ lk = NoCall
    /\ bm = NoCall

----------------------------------------------------------------------------
(* run_scraper: return paths.  The finally clause runs close_browser on    *)
(* every return and on every exception caught by `except Exception`.       *)

\* `finally: await self.browser_manager.close_browser()`: whether the clause
\* runs when the try block is left by "return", by an "exception" that
\* `except Exception` catches, or by an "interrupt" (KeyboardInterrupt,
\* CancelledError), which it does not catch
finally_closes_mut(exit_kind) == exit_kind # "interrupt"
finally_closes(exit_kind) == TRUE

\* the calls of close_browser when run_scraper is left, `before` of them made
\* by the callee that raised
Teardown(exit_kind, before) ==
    LET n == before + (IF finally_closes(exit_kind) THEN 1 ELSE 0) IN
    /\ close_calls' = close_calls + n
    /\ phase_log' = IF n > 0 THEN Append(phase_log, "close") ELSE phase_log

Finish(result) ==
    /\ pc' = "done"
    /\ run_result' = IF result THEN "success" ELSE "failure"
    /\ Teardown("return", 0)

\* _setup_sysco_session: `if not await navigate_to_sysco(): return False`
setup_aborts_after_navigate_mut(nav_ok) == FALSE
setup_aborts_after_navigate(nav_ok) == ~nav_ok

\* _setup_sysco_session: the value returned once handle_zip_code_modal returned
setup_returns_after_zip_mut(zip_ok) == zip_ok
setup_returns_after_zip(zip_ok) == TRUE

\* run_scraper: `if not await self._setup_sysco_session(): return False`
run_aborts_after_setup(setup_ok) == ~setup_ok

\* _setup_sysco_session returns `ok` to run_scraper, which either returns False
\* or goes on to _collect_product_urls
SetupReturns(ok) ==
    /\ setup_result' = IF ok THEN "ok" ELSE "failed"
    /\ IF run_aborts_after_setup(ok)
       THEN Finish(FALSE)
       ELSE /\ pc' = "collect_product_urls"
            /\ phase_log' = Append(phase_log, "collect")
            /\ UNCHANGED <<run_result, close_calls>>

\* handle_zip_code_modal returns; zres = "ok" is True, anything else False
ZipReturns(zres) ==
    /\ zip_result' = zres
    /\ SetupReturns(setup_returns_after_zip(zres = "ok"))

\* navigate_to_sysco returns `ok`; on True _setup_sysco_session calls
\* handle_zip_code_modal next
NavigateReturns(ok, gres) ==
    /\ guest_result' = gres
    /\ IF setup_aborts_after_navigate(ok)
       THEN SetupReturns(FALSE) /\ UNCHANGED zip_result
       ELSE /\ pc' = "zip_wait"
            /\ UNCHANGED <<run_result, close_calls, phase_log, setup_result, zip_result>>

----------------------------------------------------------------------------
(* BrowserManager.start_browser, called from run_scraper step 1 *)

start_browser ==
    /\ pc = "start_browser"
    /\ \E ok \in BOOLEAN :
         IF ok
         THEN /\ pc' = "navigate_to_sysco"
              /\ phase_log' = Append(phase_log, "setup")
              /\ UNCHANGED <<run_result, close_calls>>
         ELSE \* start_browser closes and re-raises; run_scraper catches, returns
              \* False, and its finally clause closes again
              /\ pc' = "done"
              /\ run_result' = "failure"
              /\ Teardown("exception", 1)
    /\ UNCHANGED <<crawlVars, scrapeVars>>
    /\ UNCHANGED <<config, csv_rows, callVars, throttling, bootVars>>

----------------------------------------------------------------------------
(* BrowserManager.navigate_to_sysco and _handle_guest_login *)

\* page.goto + wait_for_timeout(2000)
navigate_to_sysco ==
    /\ pc = "navigate_to_sysco"
    /\ \E ok \in BOOLEAN :
         IF ok
         THEN /\ pc' = "guest_login"
              /\ sel' = 1
              /\ chain' = StartChain("guest")
              /\ UNCHANGED <<run_result, close_calls, phase_log, guest_result,
                             zip_result, setup_result>>
         ELSE NavigateReturns(FALSE, "error") /\ UNCHANGED <<sel, chain>>
    /\ UNCHANGED <<crawlVars, scrapeVars>>
    /\ UNCHANGED <<config, csv_rows, callVars, throttling, attempt, poll_enabled, lastConfirmClick>>

\* one iteration of `for selector in guest_button_selectors`
handle_guest_login ==
    /\ pc = "guest_login"
    /\ \E o \in {"timeout", "click_raised", "clicked"} :
         /\ chain' = CASE o = "timeout"      -> Missed(chain, sel)
                       [] o = "click_raised" -> Failed(Matched(chain, sel))
                       [] o = "clicked"      -> Used(Matched(chain, sel), sel)
         /\ IF o = "clicked"
            THEN /\ pc' = "guest_wait"
                 /\ UNCHANGED <<sel, run_result, close_calls, phase_log, guest_result,
                                zip_result, setup_result>>
            ELSE IF sel < GuestSelectors
            THEN /\ sel' = sel + 1
                 /\ UNCHANGED <<pc, run_result, close_calls, phase_log, guest_result,
                                zip_result, setup_result>>
            ELSE \* guest_clicked is still False after the loop
                 NavigateReturns(FALSE, "no_control") /\ UNCHANGED sel
    /\ UNCHANGED <<crawlVars, scrapeVars>>
    /\ UNCHANGED <<config, csv_rows, callVars, throttling, attempt, poll_enabled, lastConfirmClick>>

\* wait_for_timeout(3000) after the guest click
guest_wait ==
    /\ pc = "guest_wait"
    /\ \E ok \in BOOLEAN :
         IF ok THEN NavigateReturns(TRUE, "clicked")
               ELSE NavigateReturns(FALSE, "error")
    /\ UNCHANGED <<crawlVars, scrapeVars>>
    /\ UNCHANGED <<config, csv_rows, callVars, throttling, sel, attempt, poll_enabled, lastConfirmClick, chain>>

----------------------------------------------------------------------------
(* BrowserManager.handle_zip_code_modal *)

\* wait_for_timeout(5000) for the modal
zip_wait ==
    /\ pc = "zip_wait"
    /\ \E ok \in BOOLEAN :
         IF ok
         THEN /\ pc' = "zip_input"
              /\ sel' = 1
              /\ chain' = StartChain("zip_input")
              /\ UNCHANGED <<run_result, close_calls, phase_log, zip_result, setup_result>>
         ELSE ZipReturns("error") /\ UNCHANGED <<sel, chain>>
    /\ UNCHANGED <<crawlVars, scrapeVars>>
    /\ UNCHANGED <<config, csv_rows, callVars, throttling, attempt, guest_result, poll_enabled, lastConfirmClick>>

\* one iteration of `for selector in zip_input_selectors`
zip_input ==
    /\ pc = "zip_input"
    /\ \E found \in BOOLEAN :
         /\ chain' = IF found THEN Used(Matched(chain, sel), sel) ELSE Missed(chain, sel)
         /\ IF found
            THEN /\ pc' = "zip_type"
                 /\ UNCHANGED <<sel, run_result, close_calls, phase_log, zip_result,
                                setup_result>>
            ELSE IF sel < ZipInputSelectors
            THEN /\ sel' = sel + 1
                 /\ UNCHANGED <<pc, run_result, close_calls, phase_log, zip_result,
                                setup_result>>
            ELSE ZipReturns("no_input") /\ UNCHANGED sel
    /\ UNCHANGED <<crawlVars, scrapeVars>>
    /\ UNCHANGED <<config, csv_rows, callVars, throttling, attempt, guest_result, poll_enabled, lastConfirmClick>>

\* click, press Control+a, type the zip code, wait_for_timeout(2000)
zip_type ==
    /\ pc = "zip_type"
    /\ \E ok \in BOOLEAN :
         IF ok
         THEN /\ pc' = "confirm_find"
              /\ sel' = 1
              /\ chain' = StartChain("confirm")
              /\ UNCHANGED <<run_result, close_calls, phase_log, zip_result, setup_result>>
         ELSE ZipReturns("error") /\ UNCHANGED <<sel, chain>>
    /\ UNCHANGED <<crawlVars, scrapeVars>>
    /\ UNCHANGED <<config, csv_rows, callVars, throttling, attempt, guest_result, poll_enabled, lastConfirmClick>>

\* `continue` of `for selector in start_shopping_selectors`, and the code after
\* the loop when shopping_clicked is still False
NextConfirmSelector ==
    IF sel < StartShoppingSelectors
    THEN /\ sel' = sel + 1
         /\ pc' = "confirm_find"
         /\ UNCHANGED <<run_result, close_calls, phase_log, zip_result, setup_result>>
    ELSE ZipReturns("no_confirm") /\ UNCHANGED sel

\* wait_for_selector(selector, timeout=5000) for a confirm control
confirm_find ==
    /\ pc = "confirm_find"
    /\ \E found \in BOOLEAN :
         /\ chain' = IF found THEN Matched(chain, sel) ELSE Missed(chain, sel)
         /\ IF found
            THEN /\ pc' = "confirm_poll"
                 /\ attempt' = 0
                 /\ poll_enabled' = FALSE
                 /\ UNCHANGED <<sel, run_result, close_calls, phase_log, zip_result,
                                setup_result>>
            ELSE NextConfirmSelector /\ UNCHANGED <<attempt, poll_enabled>>
    /\ lastConfirmClick' = NoClick
    /\ UNCHANGED <<crawlVars, scrapeVars>>
    /\ UNCHANGED <<config, csv_rows, callVars, throttling, guest_result>>

\* `if is_disabled is None: break`
poll_breaks(is_disabled) == is_disabled = AttrNone

\* `for attempt in range(10)` is exhausted after the n-th iteration
poll_exhausted_mut(n) == FALSE
poll_exhausted(n) == n = MaxPollAttempts

\* one iteration of `for attempt in range(10)`: get_attribute('disabled'),
\* then either break or wait_for_timeout(1000)
confirm_poll ==
    /\ pc = "confirm_poll"
    /\ attempt < MaxPollAttempts
    /\ \E raised \in BOOLEAN, is_disabled \in {AttrNone, "", "true"} :
         IF raised
         THEN /\ NextConfirmSelector
              /\ chain' = Failed(chain)
              /\ UNCHANGED <<attempt, poll_enabled>>
         ELSE /\ attempt' = attempt + 1
              /\ poll_enabled' = poll_breaks(is_disabled)
              /\ pc' = IF poll_breaks(is_disabled) \/ poll_exhausted(attempt + 1)
                       THEN "confirm_click" ELSE "confirm_poll"
              /\ UNCHANGED <<sel, run_result, close_calls, phase_log, zip_result,
                             setup_result, chain>>
    /\ UNCHANGED <<crawlVars, scrapeVars>>
    /\ UNCHANGED <<config, csv_rows, callVars, throttling, guest_result, lastConfirmClick>>

\* the statements after the polling loop: scroll_into_view_if_needed(), click()
confirm_click ==
    /\ pc = "confirm_click"
    /\ \E o \in {"scroll_raised", "click_raised", "clicked"} :
         /\ lastConfirmClick' =
               IF o = "scroll_raised" THEN lastConfirmClick
               ELSE [clicked |-> TRUE, polls |-> attempt, enabled |-> poll_enabled]
         /\ chain' = IF o = "clicked" THEN Used(chain, sel) ELSE Failed(chain)
         /\ IF o = "clicked"
            THEN /\ pc' = "zip_settle"
                 /\ UNCHANGED <<sel, run_result, close_calls, phase_log, zip_result,
                                setup_result>>
            ELSE NextConfirmSelector
    /\ UNCHANGED <<crawlVars, scrapeVars>>
    /\ UNCHANGED <<config, csv_rows, callVars, throttling, attempt, guest_result, poll_enabled>>

\* wait_for_timeout(8000) after the confirm click
zip_settle ==
    /\ pc = "zip_settle"
    /\ \E ok \in BOOLEAN : ZipReturns(IF ok THEN "ok" ELSE "error")
    /\ UNCHANGED <<crawlVars, scrapeVars>>
    /\ UNCHANGED <<config, csv_rows, callVars, throttling, sel, attempt, guest_result, poll_enabled, lastConfirmClick,
                   chain>>

Bootstrap ==
    \/ start_browser
    \/ navigate_to_sysco
    \/ handle_guest_login
    \/ guest_wait
    \/ zip_wait
    \/ zip_input
    \/ zip_type
    \/ confirm_find
    \/ confirm_poll
    \/ confirm_click
    \/ zip_settle

\* the session bootstrap alone, every driver call of it returning or raising
InitBootstrap ==
    /\ config = DefaultConfig
    /\ pc = "start_browser"
    /\ Constructed
    /\ fx = NoCall
    /\ fmt = NoCall
    /\ ex = NoCall
    /\ lk = NoCall
    /\ bm = NoCall

SpecBootstrap == InitBootstrap /\ [][Bootstrap]_vars /\ WF_vars(Bootstrap)

----------------------------------------------------------------------------
(* The catalog site, as the driver shows it.  An href is the sequence of   *)
(* its path tokens, "/" included, so that `in` and startswith can be       *)
(* computed on it.                                                         *)

Base == "https://shop.sysco.com"

\* config.categories_to_scrape
Categories == <<"A", "B">>

HrefA1   == <<"/", "product", "/", "a1">>
HrefA2   == <<"/", "p", "/", "a2">>
HrefSAbs == <<Base, "/", "product", "/", "s">>
HrefSRel == <<"/", "product", "/", "s">>
HrefB1   == <<"catalog", "/", "item", "/", "b1">>
HrefB9   == <<"/", "app", "/", "product-details", "/", "b9">>

\* number of distinct listing pages of a category; 'next' on the last one
\* leads back to the first (cyclic pagination)
SitePages == 2

\* hrefs of the product anchors on listing page p of a category
PageAnchors(category, p) ==
    IF category = "A"
    THEN (IF p = 1 THEN {HrefA1, HrefSAbs} ELSE {HrefSRel, HrefA2})
    ELSE (IF p = 1 THEN {HrefB1, HrefB9} ELSE {HrefB1})

\* the listing page shown after a click on an enabled 'next' control
AfterNext(p) == (p % SitePages) + 1

----------------------------------------------------------------------------
(* Python helpers *)

\* pat in text
Contains(text, pat) ==
    \E i \in 1..(Len(text) - Len(pat) + 1) : SubSeq(text, i, i + Len(pat) - 1) = pat

Range(q) == {q[i] : i \in DOMAIN q}

\* list(S) in one fixed order, for a list that is only read back through set()
RECURSIVE SetToSeq(_)
SetToSeq(S) ==
    IF S = {} THEN <<>>
    ELSE LET x == CHOOSE y \in S : TRUE IN <<x>> \o SetToSeq(S \ {x})

\* list(S): every iteration order a set may have
Orders(S) ==
    {q \in [1..Cardinality(S) -> S] : \A i, j \in DOMAIN q : i # j => q[i] # q[j]}

----------------------------------------------------------------------------
(* CategoryExtractor *)

\* len(next_selectors)
NextSelectors == 5
\* max_pages
max_pages == 10

\* the href filter of extract_product_links_from_current_page
href_passes(href) ==
    \/ Contains(href, <<"/", "product", "/">>)
    \/ Contains(href, <<"/", "item", "/">>)
    \/ Contains(href, <<"/", "detail", "/">>)
    \/ Contains(href, <<"/", "p", "/">>)
    \/ Contains(href, <<"/", "app", "/", "catalog">>)

\* relative to absolute: `if href.startswith('/')`
full_url(href) == IF Head(href) = "/" THEN <<Base>> \o href ELSE href

\* extract_product_links_from_current_page: list(page_products)
extract_product_links_from_current_page(anchors) ==
    SetToSeq({full_url(h) : h \in {a \in anchors : href_passes(a)}})

\* `return list(set(product_urls))  # Remove duplicates`
return_deduplicated(urls) == SetToSeq(Range(urls))

\* `except Exception: return product_urls`
return_on_exception(urls) == urls

\* `while page_num <= max_pages`
loop_continues_mut(n) == n <= max_pages + 1
loop_continues(n) == n <= max_pages

\* navigate_to_next_page: `if not is_disabled` guards the click
next_is_clicked(is_disabled) == ~Truthy(is_disabled)

----------------------------------------------------------------------------
(* SyscoScraperOrchestrator._collect_product_urls *)

\* the loop moves past category ci; after the last one the map is returned to
\* run_scraper, which ends the run when it is empty
CollectAdvance(map) ==
    IF ci < Len(Categories)
    THEN /\ ci' = ci + 1
         /\ pc' = "select_category"
         /\ UNCHANGED <<run_result, close_calls, phase_log>>
    ELSE /\ ci' = 0
         /\ IF map = <<>>
            THEN Finish(FALSE)
            ELSE /\ pc' = "scrape_products"
                 /\ phase_log' = Append(phase_log, "scrape")
                 /\ UNCHANGED <<run_result, close_calls>>

\* what the loop does with a category that select_category could not select:
\* true for `continue`, false for leaving the loop
skip_continues_mut(category) == FALSE
skip_continues(category) == TRUE

\* entry: category_to_urls_map = {}; the bootstrap's results and locals are
\* not read again
collect_product_urls ==
    /\ pc = "collect_product_urls"
    /\ pc' = "select_category"
    /\ ci' = 1
    /\ category_to_urls_map' = <<>>
    /\ sel' = 0
    /\ attempt' = 0
    /\ poll_enabled' = FALSE
    /\ lastConfirmClick' = NoClick
    /\ chain' = NoChain
    /\ guest_result' = "none"
    /\ zip_result' = "none"
    /\ setup_result' = "none"
    /\ UNCHANGED scrapeVars
    /\ select_log' = <<>>
    /\ UNCHANGED <<config, csv_rows, callVars, throttling, run_result, close_calls, phase_log,
                   page_num, product_urls, site_page, pages_done, lastNextClick,
                   crawl_result>>

\* category_navigator.select_category(category): False (or an exception it
\* swallows) makes the loop `continue`
select_category ==
    /\ pc = "select_category"
    /\ \E ok \in BOOLEAN :
         /\ select_log' = Append(select_log, IF ok THEN "crawled" ELSE "skipped")
         /\ IF ok
            THEN \* scrape_category_products(category_url) is called next
                 /\ pc' = "crawl_goto"
                 /\ UNCHANGED <<ci, run_result, close_calls, phase_log>>
            ELSE IF skip_continues(Categories[ci])
            THEN CollectAdvance(category_to_urls_map)
            ELSE \* the loop is left with the map as it is
                 /\ ci' = 0
                 /\ IF category_to_urls_map = <<>>
                    THEN Finish(FALSE)
                    ELSE /\ pc' = "scrape_products"
                         /\ phase_log' = Append(phase_log, "scrape")
                         /\ UNCHANGED <<run_result, close_calls>>
    /\ UNCHANGED scrapeVars
    /\ UNCHANGED <<config, csv_rows, callVars, throttling, bootVars, category_to_urls_map, page_num,
                   product_urls, site_page, pages_done, lastNextClick, crawl_result>>

\* extract_all_product_urls returns `urls` to _collect_product_urls
CrawlReturns(urls) ==
    /\ crawl_result' = urls
    /\ pc' = "record_category"
    /\ page_num' = 0
    /\ product_urls' = <<>>
    /\ site_page' = 0

\* extract_all_product_urls: `except Exception as e: ... return product_urls`
\* around the whole body, whichever driver call raised
crawler_catches_mut(where) == where # "goto"
crawler_catches(where) == TRUE

\* a driver call of extract_all_product_urls raised with `urls` collected so
\* far; uncaught, the exception would pass through scrape_category_products
\* and _collect_product_urls to the handler of run_scraper
CrawlFails(where, urls) ==
    IF crawler_catches(where)
    THEN /\ CrawlReturns(return_on_exception(urls))
         /\ UNCHANGED <<run_result, close_calls, phase_log>>
    ELSE /\ pc' = "done"
         /\ run_result' = "failure"
         /\ Teardown("exception", 0)
         /\ UNCHANGED <<crawl_result, page_num, product_urls, site_page>>

\* extract_all_product_urls: product_urls = [], page.goto(category_url), page_num = 1
crawl_goto ==
    /\ pc = "crawl_goto"
    /\ \E ok \in BOOLEAN :
         IF ok
         THEN /\ pc' = "crawl_settle"
              /\ page_num' = 1
              /\ site_page' = 1
              /\ product_urls' = <<>>
              /\ UNCHANGED <<crawl_result, run_result, close_calls, phase_log>>
         ELSE CrawlFails("goto", <<>>)
    /\ pages_done' = 0
    /\ UNCHANGED scrapeVars
    /\ UNCHANGED <<config, csv_rows, callVars, throttling, bootVars, ci,
                   category_to_urls_map, select_log, lastNextClick>>

\* top of the while loop: wait_for_timeout(1000), scroll to the bottom,
\* wait_for_timeout(1000)
crawl_settle ==
    /\ pc = "crawl_settle"
    /\ \E ok \in BOOLEAN :
         IF ok
         THEN /\ pc' = "crawl_links"
              /\ UNCHANGED <<page_num, product_urls, site_page, crawl_result,
                             run_result, close_calls, phase_log>>
         ELSE CrawlFails("scroll", product_urls)
    /\ lastNextClick' = NotClicked
    /\ UNCHANGED scrapeVars
    /\ UNCHANGED <<config, csv_rows, callVars, throttling, bootVars, ci,
                   category_to_urls_map, select_log, pages_done>>

\* page_products = extract_product_links_from_current_page();
\* product_urls.extend(page_products)
crawl_links ==
    /\ pc = "crawl_links"
    /\ product_urls' = product_urls \o
         extract_product_links_from_current_page(PageAnchors(Categories[ci], site_page))
    /\ pages_done' = pages_done + 1
    /\ pc' = "next_page"
    /\ sel' = 1
    /\ UNCHANGED scrapeVars
    /\ UNCHANGED <<config, csv_rows, callVars, throttling, run_result, close_calls, phase_log, bootLocals, ci,
                   category_to_urls_map, select_log, page_num, site_page, lastNextClick,
                   crawl_result>>

\* what the driver answers to one selector of navigate_to_next_page:
\* query_selector finds nothing / raises, or finds a control with some disabled
\* attribute; a click() on it then raises, or works, and the
\* wait_for_timeout(3000) after it returns or raises
NextAnswers ==
    {[found |-> FALSE, is_disabled |-> AttrNone, after |-> "click_raised"]}
    \cup [found : {TRUE}, is_disabled : {AttrNone, "", "true"},
          after : {"click_raised", "wait_raised", "ok"}]

\* one iteration of `for selector in next_selectors`, and, when the function
\* returns, the rest of the while-loop body of extract_all_product_urls
next_page ==
    /\ pc = "next_page"
    /\ \E a \in NextAnswers, wait_ok \in BOOLEAN :
         LET clicks == a.found /\ next_is_clicked(a.is_disabled)
             shown  == IF clicks /\ a.after # "click_raised"
                       THEN AfterNext(site_page) ELSE site_page
         IN
         /\ lastNextClick' = IF clicks THEN a.is_disabled ELSE lastNextClick
         /\ IF clicks /\ a.after = "ok"
            THEN \* returns True: page_num += 1; wait_for_timeout(1000)
                 /\ sel' = 0
                 /\ IF ~wait_ok
                    THEN CrawlFails("wait", product_urls)
                    ELSE /\ UNCHANGED <<run_result, close_calls, phase_log>>
                         /\ IF loop_continues(page_num + 1)
                            THEN /\ pc' = "crawl_settle"
                                 /\ page_num' = page_num + 1
                                 /\ site_page' = shown
                                 /\ UNCHANGED <<product_urls, crawl_result>>
                            ELSE CrawlReturns(return_deduplicated(product_urls))
            ELSE IF sel < NextSelectors
            THEN \* not found, disabled, or the bare except: continue
                 /\ sel' = sel + 1
                 /\ site_page' = shown
                 /\ UNCHANGED <<pc, page_num, product_urls, crawl_result,
                                run_result, close_calls, phase_log>>
            ELSE \* returns False: break
                 /\ sel' = 0
                 /\ CrawlReturns(return_deduplicated(product_urls))
                 /\ UNCHANGED <<run_result, close_calls, phase_log>>
    /\ UNCHANGED scrapeVars
    /\ UNCHANGED <<config, csv_rows, callVars, throttling, bootLocals, ci,
                   category_to_urls_map, select_log, pages_done>>

\* back in _collect_product_urls: `if product_urls:` record list(set(product_urls));
\* return_to_dashboard() unless last; throttle()
record_category ==
    /\ pc = "record_category"
    /\ \E order \in Orders(Range(crawl_result)) :
         LET map == IF crawl_result # <<>>
                    THEN Append(category_to_urls_map,
                                [category |-> Categories[ci], urls |-> order])
                    ELSE category_to_urls_map
         IN /\ category_to_urls_map' = map
            /\ CollectAdvance(map)
    /\ throttling' = AfterOperation(throttling, config, "crawl", TRUE)
    /\ crawl_result' = <<>>
    /\ pages_done' = 0
    /\ lastNextClick' = NotClicked
    /\ UNCHANGED scrapeVars
    /\ UNCHANGED <<config, csv_rows, callVars, bootVars, page_num, product_urls, site_page,
                   select_log>>

Collect ==
    \/ collect_product_urls
    \/ select_category
    \/ crawl_goto
    \/ crawl_settle
    \/ crawl_links
    \/ next_page
    \/ record_category

----------------------------------------------------------------------------
(* Product detail pages, as the driver shows them.  The text of a field on *)
(* a page is written as the page's id, so a value says which page it was   *)
(* read from; "" is a field the page does not have.                        *)

\* the fields ProductData.is_valid reads
IdentifyingFields == {"brand", "product_name", "sku"}

\* the order in which extract_all_fields fills the record
FieldOrder == <<"brand", "product_name", "packaging", "sku", "image_url",
                "description", "price">>

PageId(url) == url[Len(url)]

PageField(url, field) ==
    CASE PageId(url) = "a1" -> "a1"
      [] PageId(url) = "s"  -> IF field \in {"brand", "product_name"} THEN "" ELSE "s"
      [] PageId(url) = "b1" -> IF field \in {"packaging", "sku"} THEN "b1" ELSE ""
      [] OTHER              -> IF field = "packaging" THEN PageId(url) ELSE ""

----------------------------------------------------------------------------
(* ProductData *)

\* ProductData(url=product_url)
ProductData(url) ==
    [url |-> url, brand |-> "", product_name |-> "", packaging |-> "", sku |-> "",
     image_url |-> "", description |-> "", price |-> "", category |-> ""]

\* ProductData.is_valid
is_valid_mut(p) == p.url # <<>>
is_valid(p) ==
    LET has_url == p.url # <<>>
        has_identifying_info == p.product_name # "" \/ p.brand # "" \/ p.sku # ""
    IN has_url /\ has_identifying_info

----------------------------------------------------------------------------
(* SyscoScraperOrchestrator._scrape_products *)

RECURSIVE Flatten(_)
\* all_products_to_scrape: one {'url', 'category'} per url, in dict order
Flatten(map) ==
    IF map = <<>> THEN <<>>
    ELSE [i \in 1..Len(Head(map).urls) |->
              [url |-> Head(map).urls[i], category |-> Head(map).category]]
         \o Flatten(Tail(map))

\* max_products = self.config.max_products or len(all_products_to_scrape);
\* all_products_to_scrape[:max_products]
Truncate_mut(cfg, all) == all
Truncate(cfg, all) ==
    LET max_products == IF cfg.max_products # 0 THEN cfg.max_products ELSE Len(all)
    IN SubSeq(all, 1, IF max_products < Len(all) THEN max_products ELSE Len(all))

\* the condition of the `if` that picks _scrape_products_async
use_async_mut(cfg, n) == n <= cfg.async_batch_size
use_async(cfg, n) == cfg.enable_async_scraping /\ n <= cfg.async_batch_size

NewTask(status) == [status |-> status, fi |-> 0, rec |-> <<>>, result |-> <<>>,
                    attempts |-> 0]

scrape_products ==
    /\ pc = "scrape_products"
    /\ LET all   == Flatten(category_to_urls_map)
           work  == Truncate(config, all)
           async == use_async(config, Len(work))
       IN /\ all_products_to_scrape' = all
          /\ products_to_process' = work
          /\ mode' = IF async THEN "async" ELSE "sequential"
          /\ pc' = IF async THEN "scrape_async" ELSE "scrape_sequential"
          /\ tasks' = [i \in 1..Len(work) |->
                          NewTask(IF async \/ i = 1 THEN "goto" ELSE "waiting")]
    /\ UNCHANGED <<config, csv_rows, callVars, throttling, run_result, close_calls, phase_log, bootVars, crawlVars,
                   page_url, products>>

----------------------------------------------------------------------------
(* ProductExtractor.extract_all_fields, as called through                  *)
(* ProductScraper.scrape_product, and the code of the dispatcher that runs *)
(* when it returns (no await lies between the two)                         *)

\* asyncio.gather's result loop: `if result and not isinstance(result, Exception)`;
\* a result is <<>> for None and <<record>> for a ProductData
async_accepts(result) == result # <<>>

\* _scrape_products_sequential: throttle() follows the try/except of every
\* item, whether scrape_product returned a valid record, an invalid one, or
\* raised
throttles_after_item_mut(valid) == valid
throttles_after_item(valid) == TRUE

\* the sequential loop: what is scraped after item i
sequential_next_mut(i) == i + 2
sequential_next(i) == i + 1

\* scrape_product, called `att` times for work item t so far, returned rec to
\* the dispatcher
Returned(t, rec, att) ==
    LET finished == [tasks[t] EXCEPT !.status = "done", !.rec = rec, !.fi = 0,
                                     !.attempts = att,
                                     !.result = IF is_valid(rec) THEN <<rec>> ELSE <<>>]
    IN IF mode = "async"
       THEN \* scrape_single_product returns product_data or None
            /\ tasks' = [tasks EXCEPT ![t] = finished]
            /\ UNCHANGED <<products, pc, phase_log, throttling>>
       ELSE \* `if product_data.is_valid(): self.products.append(product_data)`,
            \* throttle(), next iteration
            /\ products' = IF is_valid(rec) THEN Append(products, rec) ELSE products
            /\ throttling' = AfterOperation(throttling, config, "extract",
                                            throttles_after_item(is_valid(rec)))
            /\ IF sequential_next(t) \in DOMAIN tasks
               THEN /\ tasks' = [tasks EXCEPT ![t] = finished,
                                             ![sequential_next(t)].status = "goto"]
                    /\ UNCHANGED <<pc, phase_log>>
               ELSE /\ tasks' = [tasks EXCEPT ![t] = finished]
                    /\ pc' = "export"
                    /\ phase_log' = Append(phase_log, "export")

\* page.goto(product_url, wait_until="domcontentloaded", timeout=15000)
extract_goto(t) ==
    /\ pc \in {"scrape_async", "scrape_sequential"}
    /\ tasks[t].status = "goto"
    /\ \E o \in {"loaded", "raised", "raised_after_commit"} :
         \* a goto that times out may or may not have replaced the document
         /\ page_url' = IF o = "raised" THEN page_url ELSE products_to_process[t].url
         /\ IF o = "loaded"
            THEN /\ tasks' = [tasks EXCEPT ![t].status = "settle",
                                           ![t].attempts = tasks[t].attempts + 1]
                 /\ UNCHANGED <<products, pc, phase_log, throttling>>
            ELSE \* except Exception: return ProductData(url=product_url)
                 Returned(t, ProductData(products_to_process[t].url),
                          tasks[t].attempts + 1)
    /\ UNCHANGED <<config, csv_rows, callVars, run_result, close_calls, bootVars, crawlVars,
                   all_products_to_scrape, products_to_process, mode>>

\* wait_for_timeout(3000); product_data = ProductData(url=product_url)
extract_settle(t) ==
    /\ pc \in {"scrape_async", "scrape_sequential"}
    /\ tasks[t].status = "settle"
    /\ \E ok \in BOOLEAN :
         IF ok
         THEN /\ tasks' = [tasks EXCEPT ![t].status = "fields", ![t].fi = 1,
                                        ![t].rec = ProductData(products_to_process[t].url)]
              /\ UNCHANGED <<products, pc, phase_log, throttling>>
         ELSE Returned(t, ProductData(products_to_process[t].url), tasks[t].attempts)
    /\ UNCHANGED <<config, csv_rows, callVars, run_result, close_calls, bootVars, crawlVars,
                   all_products_to_scrape, products_to_process, mode, page_url>>

\* `product_data.category = category`, the parameter scrape_product passed on
tagged_mut(rec, category) == rec
tagged(rec, category) == [rec EXCEPT !.category = category]

\* product_data.<field> = await self.extract_<field>(): read from whatever
\* document self.page shows now, or "" when the chain resolves nothing or a
\* driver call raises inside the extractor (explored for the fields is_valid
\* reads); after the last field, category is set and the record is returned
extract_field(t) ==
    /\ pc \in {"scrape_async", "scrape_sequential"}
    /\ tasks[t].status = "fields"
    /\ \E miss \in BOOLEAN :
         LET f     == FieldOrder[tasks[t].fi]
             value == IF miss /\ f \in IdentifyingFields
                      THEN "" ELSE PageField(page_url, f)
             rec   == [tasks[t].rec EXCEPT ![f] = value]
         IN IF tasks[t].fi < Len(FieldOrder)
            THEN /\ tasks' = [tasks EXCEPT ![t].rec = rec, ![t].fi = tasks[t].fi + 1]
                 /\ UNCHANGED <<products, pc, phase_log, throttling>>
            ELSE Returned(t, tagged(rec, products_to_process[t].category),
                          tasks[t].attempts)
    /\ UNCHANGED <<config, csv_rows, callVars, run_result, close_calls, bootVars, crawlVars,
                   all_products_to_scrape, products_to_process, mode, page_url>>

RECURSIVE Accepted(_)
\* `for result in results: if ...: self.products.append(result)`
Accepted(results) ==
    IF results = <<>> THEN <<>>
    ELSE (IF async_accepts(Head(results)) THEN Head(results) ELSE <<>>)
         \o Accepted(Tail(results))

\* asyncio.gather(*tasks, return_exceptions=True) has every result
gather ==
    /\ pc = "scrape_async"
    /\ \A t \in DOMAIN tasks : tasks[t].status = "done"
    /\ products' = products \o Accepted([t \in DOMAIN tasks |-> tasks[t].result])
    /\ pc' = "export"
    /\ phase_log' = Append(phase_log, "export")
    /\ UNCHANGED <<config, csv_rows, callVars, throttling, run_result, close_calls, bootVars, crawlVars,
                   all_products_to_scrape, products_to_process, mode, tasks, page_url>>

----------------------------------------------------------------------------
(* CSVExporter.export_products and the end of run_scraper *)

\* export_products: False for an empty list, for a list without a valid
\* record, and when writing raises
export_products_mut(list, io_ok) == io_ok
export_products(list, io_ok) ==
    /\ io_ok
    /\ list # <<>>
    /\ \E i \in DOMAIN list : is_valid(list[i])

\* product_dicts = [product.to_dict() for product in products if product.is_valid()]
product_dicts_mut(list) == list
product_dicts(list) == SelectSeq(list, LAMBDA p : is_valid(p))

\* the rows of product_dicts, once writer.writerows has written them
written_rows(list, io_ok) ==
    IF export_products(list, io_ok) THEN product_dicts(list) ELSE <<>>

\* success = self.csv_exporter.export_products(self.products); return success
export ==
    /\ pc = "export"
    /\ \E io_ok \in BOOLEAN :
         /\ csv_rows' = written_rows(products, io_ok)
         /\ Finish(export_products(products, io_ok))
    /\ UNCHANGED <<config, callVars, throttling, bootVars, crawlVars, scrapeVars>>

----------------------------------------------------------------------------
(* An interrupt while run_scraper is suspended in an await: the exception   *)
(* unwinds through every frame (none of the `except Exception` clauses      *)
(* catches it) to run_scraper's finally clause.  The locals of the unwound  *)
(* frames are gone; self.products and the output file stay as they are.     *)

interrupt ==
    /\ pc # "done"
    /\ pc' = "done"
    /\ run_result' = "interrupted"
    /\ Teardown("interrupt", 0)
    /\ sel' = 0
    /\ attempt' = 0
    /\ guest_result' = "none"
    /\ zip_result' = "none"
    /\ setup_result' = "none"
    /\ poll_enabled' = FALSE
    /\ lastConfirmClick' = NoClick
    /\ chain' = NoChain
    /\ ci' = 0
    /\ category_to_urls_map' = <<>>
    /\ page_num' = 0
    /\ product_urls' = <<>>
    /\ site_page' = 0
    /\ pages_done' = 0
    /\ lastNextClick' = NotClicked
    /\ crawl_result' = <<>>
    /\ select_log' = <<>>
    /\ all_products_to_scrape' = <<>>
    /\ products_to_process' = <<>>
    /\ mode' = "none"
    /\ tasks' = <<>>
    /\ page_url' = <<>>
    /\ UNCHANGED <<config, csv_rows, callVars, throttling, products>>

Scrape ==
    \/ scrape_products
    \/ \E t \in DOMAIN tasks : extract_goto(t)
    \/ \E t \in DOMAIN tasks : extract_settle(t)
    \/ \E t \in DOMAIN tasks : extract_field(t)
    \/ gather
    \/ export

Next == Bootstrap \/ Collect \/ Scrape \/ interrupt

Spec == Init /\ [][Next]_vars

\* the run up to the end of _collect_product_urls
NextCollect == Bootstrap \/ Collect

\* with the default configuration: the knobs that differ between the
\* configurations explored are read in the scrape phase
SpecCollect == InitBootstrap /\ [][NextCollect]_vars

----------------------------------------------------------------------------
(* The two ways into a run: the method SyscoScraperOrchestrator.run_scraper *)
(* and the module-level function run_scraper(config) the package exports    *)

\* the attributes the class SyscoScraperOrchestrator defines
OrchestratorMethods ==
    {"__init__", "run_scraper", "_setup_sysco_session", "_collect_product_urls",
     "_scrape_products", "_scrape_products_sequential", "_scrape_products_async",
     "get_scraped_products", "get_output_path"}

\* the attribute run_scraper(config) looks up on the orchestrator it built
CalledMethod == "scrape_all_products"

InitEntry ==
    /\ config \in Configs
    /\ pc \in {"start_browser", "run_scraper_function"}
    /\ Constructed
    /\ fx = NoCall
    /\ fmt = NoCall
    /\ ex = NoCall
    /\ lk = NoCall
    /\ bm = NoCall

\* run_scraper(config): orchestrator = SyscoScraperOrchestrator(config);
\* return await orchestrator.scrape_all_products()
run_scraper_function ==
    /\ pc = "run_scraper_function"
    /\ IF CalledMethod \in OrchestratorMethods
       THEN pc' = "start_browser" /\ UNCHANGED run_result
       ELSE pc' = "done" /\ run_result' = "AttributeError"
    /\ UNCHANGED <<config, phase_log, close_calls, bootVars, crawlVars, scrapeVars,
                   csv_rows, throttling, callVars>>

NextEntry ==
    \/ run_scraper_function
    \/ pc # "run_scraper_function" /\ Next

SpecEntry == InitEntry /\ [][NextEntry]_vars

----------------------------------------------------------------------------
(* DataFormatter.  A text is the sequence of its characters; a word stands  *)
(* for one character that is neither whitespace nor punctuation, and the    *)
(* words "cook", "oz" and "cut" are keywords of the three keyword lists.    *)

\* longest text passed to _limit_section_length, and largest max_length
MaxText == 5
MaxLimit == 4
\* longest raw description passed to format_description
MaxDescription == 4

TextChars == {"a", ".", " "}
DescriptionChars == {"beef", "Cook", "oz", "cut", ".", " ", "*"}

\* all texts of at most n characters
TextsUpTo(chars, n) == UNION {[1..k -> chars] : k \in 0..n}

IsSpace(ch) == ch = " "
\* [,.!?;:]
IsPunctuation(ch) == ch \in {",", ".", "!", "?", ";", ":"}
\* the bullet glyphs of _clean_raw_text, written "*"
IsBullet(ch) == ch = "*"
\* [.!?]
IsTerminal(ch) == ch \in {".", "!", "?"}

RECURSIVE lstrip(_)
lstrip(s) == IF s # <<>> /\ IsSpace(Head(s)) THEN lstrip(Tail(s)) ELSE s

RECURSIVE rstrip(_)
rstrip(s) ==
    IF s # <<>> /\ IsSpace(s[Len(s)]) THEN rstrip(SubSeq(s, 1, Len(s) - 1)) ELSE s

strip(s) == lstrip(rstrip(s))

\* s.rfind(ch): the last 0-based index of ch in s, -1 when there is none
rfind(s, ch) ==
    LET at == {i \in DOMAIN s : s[i] = ch}
    IN IF at = {} THEN -1 ELSE (CHOOSE i \in at : \A j \in at : j <= i) - 1

Ellipsis == <<".", ".", ".">>

\* `last_period > max_length * 0.7`, computed in tenths (the two agree for
\* every max_length below 90 and for 200); last_period is a 0-based index
keeps_sentence_mut(last_period, max_length) == 10 * (last_period + 1) >= 7 * max_length
keeps_sentence(last_period, max_length) == 10 * last_period > 7 * max_length

\* DataFormatter._limit_section_length
limit_section_length_mut(text, max_length) ==
    IF Len(text) <= max_length THEN text ELSE text \o Ellipsis
limit_section_length(text, max_length) ==
    IF Len(text) <= max_length
    THEN text
    ELSE LET truncated   == SubSeq(text, 1, max_length)
             last_period == rfind(truncated, ".")
         IN IF keeps_sentence(last_period, max_length)
            THEN SubSeq(text, 1, last_period + 1)
            ELSE rstrip(truncated) \o Ellipsis

RECURSIVE CollapseSpaces(_)
\* re.sub(r'\s+', ' ', text)
CollapseSpaces(s) ==
    IF s = <<>> THEN <<>>
    ELSE IF IsSpace(Head(s)) THEN <<" ">> \o CollapseSpaces(lstrip(s))
    ELSE <<Head(s)>> \o CollapseSpaces(Tail(s))

RECURSIVE RemoveBullets(_)
\* re.sub(r'[<bullets>]\s*', '', text)
RemoveBullets(s) ==
    IF s = <<>> THEN <<>>
    ELSE IF IsBullet(Head(s)) THEN RemoveBullets(lstrip(Tail(s)))
    ELSE <<Head(s)>> \o RemoveBullets(Tail(s))

RECURSIVE DropRun(_, _)
\* s without its leading run of ch
DropRun(s, ch) == IF s # <<>> /\ Head(s) = ch THEN DropRun(Tail(s), ch) ELSE s

RECURSIVE CollapseRuns(_, _)
\* re.sub(r'[<ch>]{2,}', '<ch>', text)
CollapseRuns(s, ch) ==
    IF s = <<>> THEN <<>>
    ELSE IF Head(s) = ch THEN <<ch>> \o CollapseRuns(DropRun(s, ch), ch)
    ELSE <<Head(s)>> \o CollapseRuns(Tail(s), ch)

RECURSIVE SpaceBeforePunctuation(_)
\* re.sub(r'\s+([,.!?;:])', r'\1', text)
SpaceBeforePunctuation(s) ==
    IF s = <<>> THEN <<>>
    ELSE IF IsSpace(Head(s)) /\ lstrip(s) # <<>> /\ IsPunctuation(Head(lstrip(s)))
    THEN SpaceBeforePunctuation(lstrip(s))
    ELSE <<Head(s)>> \o SpaceBeforePunctuation(Tail(s))

RECURSIVE SpaceAfterPunctuation(_)
\* re.sub(r'([,.!?;:])\s+', r'\1 ', text)
SpaceAfterPunctuation(s) ==
    IF s = <<>> THEN <<>>
    ELSE IF IsPunctuation(Head(s)) /\ Len(s) > 1 /\ IsSpace(s[2])
    THEN <<Head(s), " ">> \o SpaceAfterPunctuation(lstrip(Tail(s)))
    ELSE <<Head(s)>> \o SpaceAfterPunctuation(Tail(s))

\* DataFormatter._clean_raw_text
clean_raw_text(text) ==
    strip(SpaceAfterPunctuation(SpaceBeforePunctuation(
        CollapseRuns(CollapseRuns(RemoveBullets(CollapseSpaces(text)), "."), "-"))))

RECURSIVE DropTerminals(_)
DropTerminals(s) ==
    IF s # <<>> /\ IsTerminal(Head(s)) THEN DropTerminals(Tail(s)) ELSE s

RECURSIVE Split(_, _)
\* re.split(r'[.!?]+', text), given the piece read so far
Split(s, piece) ==
    IF s = <<>> THEN <<piece>>
    ELSE IF IsTerminal(Head(s)) THEN <<piece>> \o Split(DropTerminals(s), <<>>)
    ELSE Split(Tail(s), Append(piece, Head(s)))

\* sentences = [s.strip() for s in sentences if s.strip()]
Sentences(text) ==
    LET pieces == Split(text, <<>>)
    IN SelectSeq([i \in DOMAIN pieces |-> strip(pieces[i])], LAMBDA x : x # <<>>)

\* str.lower() on one character
Lower(ch) == IF ch = "Cook" THEN "cook" ELSE ch

\* the keyword lists of _organize_into_sections
CookingKeywords == {"cook", "bake", "fry", "grill", "heat", "temperature",
                    "oven", "microwave", "preparation", "serve"}
SpecificationKeywords == {"weight", "size", "count", "piece", "lb", "oz", "gram",
                          "dimension", "pack", "case", "unit"}
FeatureKeywords == {"feature", "benefit", "quality", "fresh", "premium",
                    "natural", "organic", "grade", "cut", "style"}

\* any(keyword in sentence_lower for keyword in keywords)
HasKeyword(sentence, keywords) ==
    \E i \in DOMAIN sentence : Lower(sentence[i]) \in keywords

\* the bucket the if/elif chain of _organize_into_sections puts a sentence in
Bucket_mut(sentence) ==
    CASE HasKeyword(sentence, SpecificationKeywords) -> "SPECIFICATIONS"
      [] HasKeyword(sentence, CookingKeywords)       -> "COOKING_INSTRUCTIONS"
      [] HasKeyword(sentence, FeatureKeywords)       -> "FEATURES"
      [] OTHER                                       -> "PRODUCT"
Bucket(sentence) ==
    CASE HasKeyword(sentence, CookingKeywords)       -> "COOKING_INSTRUCTIONS"
      [] HasKeyword(sentence, SpecificationKeywords) -> "SPECIFICATIONS"
      [] HasKeyword(sentence, FeatureKeywords)       -> "FEATURES"
      [] OTHER                                       -> "PRODUCT"

RECURSIVE Accumulate(_, _)
\* sections[key] += sentence + '. ', over the sentences in order
Accumulate(sentences, key) ==
    IF sentences = <<>> THEN <<>>
    ELSE (IF Bucket(Head(sentences)) = key THEN Head(sentences) \o <<".", " ">>
          ELSE <<>>)
         \o Accumulate(Tail(sentences), key)

\* section_order of _format_sections
section_order_mut == <<"SPECIFICATIONS", "PRODUCT", "FEATURES", "COOKING_INSTRUCTIONS">>
section_order == <<"PRODUCT", "SPECIFICATIONS", "FEATURES", "COOKING_INSTRUCTIONS">>

\* section_labels of _format_sections
section_labels ==
    [PRODUCT |-> "PRODUCT", SPECIFICATIONS |-> "SPECIFICATIONS",
     FEATURES |-> "FEATURES", COOKING_INSTRUCTIONS |-> "COOKING INSTRUCTIONS"]

\* DataFormatter._organize_into_sections
organize_into_sections(text) ==
    [key \in Range(section_order) |-> strip(Accumulate(Sentences(text), key))]

\* ' | '
Separator == <<" ", "|", " ">>

RECURSIVE Join(_)
\* ' | '.join(parts)
Join(parts) ==
    IF parts = <<>> THEN <<>>
    ELSE IF Len(parts) = 1 THEN Head(parts)
    ELSE Head(parts) \o Separator \o Join(Tail(parts))

\* the max_length _format_sections passes to _limit_section_length
SectionLimit == 200

\* DataFormatter._format_sections
format_sections(sections) ==
    LET part(key) == <<section_labels[key], ":", " ">>
                     \o limit_section_length(strip(sections[key]), SectionLimit)
        kept == SelectSeq(section_order, LAMBDA key : strip(sections[key]) # <<>>)
        formatted_parts == [i \in DOMAIN kept |-> part(kept[i])]
    IN IF formatted_parts # <<>> THEN Join(formatted_parts) ELSE sections["PRODUCT"]

\* DataFormatter.format_description
format_description(raw_description) ==
    IF raw_description = <<>> \/ strip(raw_description) = <<>>
    THEN <<>>
    ELSE format_sections(organize_into_sections(clean_raw_text(raw_description)))

----------------------------------------------------------------------------
(* DataFormatter.clean_price *)

\* the longest price text explored
MaxPrice == 5

\* the characters of a price text: the currency sign, a digit, the thousands
\* separator, the decimal point, whitespace, a letter
PriceChars == {"$", "1", ",", ".", " ", "x"}

\* \d
IsDigit(ch) == ch = "1"

RECURSIVE RunEnd(_, _, _)
\* the index of the last character of the longest run of characters of
\* `chars` that starts at index i of s; i - 1 when that run is empty
RunEnd(s, i, chars) ==
    IF i <= Len(s) /\ s[i] \in chars THEN RunEnd(s, i + 1, chars) ELSE i - 1

\* re.search(r'\$[\d,]+\.?\d*', text).group(); <<>> stands for no match
\* (a match has at least two characters)
price_match(text) ==
    LET starts == {i \in 1..(Len(text) - 1) : text[i] = "$" /\ text[i + 1] \in {"1", ","}}
    IN IF starts = {} THEN <<>>
       ELSE LET i == CHOOSE k \in starts : \A m \in starts : k <= m
                j == RunEnd(text, i + 1, {"1", ","})
                d == IF j < Len(text) /\ text[j + 1] = "." THEN j + 1 ELSE j
                e == RunEnd(text, d + 1, {"1"})
            IN SubSeq(text, i, e)

\* DataFormatter.clean_price
clean_price(price_text) ==
    IF price_text = <<>> THEN <<>>
    ELSE LET cleaned == CollapseSpaces(strip(price_text))
         IN IF price_match(cleaned) # <<>> THEN price_match(cleaned) ELSE cleaned

----------------------------------------------------------------------------
(* DataFormatter.clean_text_field on a text given as its characters *)

\* the longest field text explored
MaxField == 5

\* the characters of a field text: a letter, whitespace, an allowed
\* punctuation mark, and a trademark sign (written "(tm)"), which is not in
\* the allow-list
FieldChars == {"a", " ", "-", "(tm)"}

\* [\w\s\-.,!?()&/$...]: the characters the second substitution keeps
IsAllowed(ch) == ch # "(tm)"

\* re.sub(r'[^\w\s\-.,!?()&/$...]', '', text)
RemoveDisallowed(s) == SelectSeq(s, LAMBDA ch : IsAllowed(ch))

\* DataFormatter.clean_text_field: the whitespace is normalised first, the
\* characters outside the allow-list are removed afterwards
clean_text_field_chars(text) ==
    IF text = <<>> THEN <<>>
    ELSE RemoveDisallowed(CollapseSpaces(strip(text)))

----------------------------------------------------------------------------
(* Single calls of the formatter, on every text within the bounds *)

FormatCalls ==
    {[pc |-> "limit", text |-> t, max_length |-> n, out |-> <<>>, again |-> <<>>] :
        t \in TextsUpTo(TextChars, MaxText), n \in 1..MaxLimit}
    \cup
    {[pc |-> "format", text |-> t, max_length |-> 0, out |-> <<>>, again |-> <<>>] :
        t \in TextsUpTo(DescriptionChars, MaxDescription)}
    \cup
    {[pc |-> "organize", text |-> t, max_length |-> 0, out |-> <<>>, again |-> <<>>] :
        t \in TextsUpTo(DescriptionChars, MaxDescription)}
    \cup
    {[pc |-> "clean", text |-> t, max_length |-> 0, out |-> <<>>, again |-> <<>>] :
        t \in TextsUpTo(FieldChars, MaxField)}
    \cup
    {[pc |-> "price", text |-> t, max_length |-> 0, out |-> <<>>, again |-> <<>>] :
        t \in TextsUpTo(PriceChars, MaxPrice)}
    \cup
    {[pc |-> "price_field", text |-> t, max_length |-> 0, out |-> <<>>, again |-> <<>>] :
        t \in TextsUpTo(PriceChars, MaxPrice)}

InitFormat ==
    /\ config = DefaultConfig
    /\ pc = "not_called"
    /\ Constructed
    /\ fx = NoCall
    /\ fmt \in FormatCalls
    /\ ex = NoCall
    /\ lk = NoCall
    /\ bm = NoCall

\* out = _limit_section_length(text, max_length)
call_limit_section_length ==
    /\ fmt.pc = "limit"
    /\ fmt' = [fmt EXCEPT !.pc = "limited",
                          !.out = limit_section_length(fmt.text, fmt.max_length)]
    /\ UNCHANGED <<runVars, bootVars, crawlVars, scrapeVars, csv_rows, throttling, fx, ex, lk, bm>>

\* again = _limit_section_length(out, max_length)
call_limit_section_length_again ==
    /\ fmt.pc = "limited"
    /\ fmt' = [fmt EXCEPT !.pc = "limited_again",
                          !.again = limit_section_length(fmt.out, fmt.max_length)]
    /\ UNCHANGED <<runVars, bootVars, crawlVars, scrapeVars, csv_rows, throttling, fx, ex, lk, bm>>

\* out = format_description(text)
call_format_description ==
    /\ fmt.pc = "format"
    /\ fmt' = [fmt EXCEPT !.pc = "formatted", !.out = format_description(fmt.text)]
    /\ UNCHANGED <<runVars, bootVars, crawlVars, scrapeVars, csv_rows, throttling, fx, ex, lk, bm>>

\* out = _organize_into_sections(text)
call_organize_into_sections ==
    /\ fmt.pc = "organize"
    /\ fmt' = [fmt EXCEPT !.pc = "organized", !.out = organize_into_sections(fmt.text)]
    /\ UNCHANGED <<runVars, bootVars, crawlVars, scrapeVars, csv_rows, throttling, fx, ex, lk, bm>>

\* out = clean_text_field(text)
call_clean_text_field ==
    /\ fmt.pc = "clean"
    /\ fmt' = [fmt EXCEPT !.pc = "cleaned", !.out = clean_text_field_chars(fmt.text)]
    /\ UNCHANGED <<runVars, bootVars, crawlVars, scrapeVars, csv_rows, throttling, fx, ex, lk, bm>>

\* again = clean_text_field(out)
call_clean_text_field_again ==
    /\ fmt.pc = "cleaned"
    /\ fmt' = [fmt EXCEPT !.pc = "cleaned_again",
                          !.again = clean_text_field_chars(fmt.out)]
    /\ UNCHANGED <<runVars, bootVars, crawlVars, scrapeVars, csv_rows, throttling, fx, ex, lk, bm>>

\* out = clean_price(text)
call_clean_price ==
    /\ fmt.pc = "price"
    /\ fmt' = [fmt EXCEPT !.pc = "priced", !.out = clean_price(fmt.text)]
    /\ UNCHANGED <<runVars, bootVars, crawlVars, scrapeVars, csv_rows, throttling, fx, ex, lk, bm>>

\* ProductExtractor.extract_price on a page whose first price locator resolves
\* to an element with the text given: `if price_text and price_text.strip():
\* return self.formatter.clean_text_field(price_text)`, "" otherwise;
\* extract_all_fields stores the value returned as product_data.price
extract_price(price_text) ==
    IF strip(price_text) # <<>> THEN clean_text_field_chars(price_text) ELSE <<>>

\* out = extract_price() with inner_text() = text
call_extract_price ==
    /\ fmt.pc = "price_field"
    /\ fmt' = [fmt EXCEPT !.pc = "price_read", !.out = extract_price(fmt.text)]
    /\ UNCHANGED <<runVars, bootVars, crawlVars, scrapeVars, csv_rows, throttling, fx, ex, lk, bm>>

NextFormat ==
    \/ call_limit_section_length
    \/ call_limit_section_length_again
    \/ call_format_description
    \/ call_organize_into_sections
    \/ call_clean_text_field
    \/ call_clean_text_field_again
    \/ call_clean_price
    \/ call_extract_price

SpecFormat == InitFormat /\ [][NextFormat]_vars

----------------------------------------------------------------------------
(* ProductExtractor: one extract_all_fields call followed locator by        *)
(* locator, with nothing else using the page.  The text of an element is    *)
(* one of a few samples.                                                    *)

\* len(brand_selectors), len(name_selectors), len(sku_selectors),
\* len(img_selectors), len(price_selectors)
FieldSelectors ==
    [brand |-> 5, product_name |-> 7, sku |-> 7, image_url |-> 7, price |-> 9]

\* what inner_text() may return: nothing, whitespace, only a trademark sign
\* (written "(tm)"), which clean_text_field removes, a name followed by one
ElementTexts == {"", " ", "(tm)", "Acme(tm)"}

\* the raw descriptions a description container may hold
DescriptionTexts == {<<>>, <<".", ".", ".">>, <<"cut", " ", "beef", ".">>}

\* `text and text.strip()`
NonBlank(text) == text \notin {AttrNone, "", " "}

\* DataFormatter.clean_text_field on the sample texts
clean_text_field(text) ==
    CASE text \in {"", " "} -> ""
      [] text = "(tm)"         -> ""
      [] text = "Acme(tm)"     -> "Acme"

\* img_src.strip()
strip_text(text) == IF text = " " THEN "" ELSE text

\* what an extractor returns for the content it read
Normalised(field, text) ==
    IF field = "image_url" THEN strip_text(text) ELSE clean_text_field(text)

\* extract_description: `if description_text:` return format_description(...),
\* written "<formatted>" when that is not empty
formatted_description(text) ==
    IF text = <<>> \/ format_description(text) = <<>> THEN "" ELSE "<formatted>"

\* `if brand_text and brand_text.strip(): return ...` inside the selector loop
returns_on_content_mut(text) == FALSE
returns_on_content(text) == NonBlank(text)

\* every extract_<field> has its own try/except that returns ""
field_raise_is_local_mut(field) == FALSE
field_raise_is_local(field) == TRUE

\* extract_all_fields: `except Exception as e: ... return ProductData(url=product_url)`
coordinator_catches_mut(where) == where # "goto"
coordinator_catches(where) == TRUE

NotYielded == [kind |-> "none", text |-> ""]

\* the calls explored: one per work-list entry of the site
ExtractCalls ==
    {[pc |-> "goto", url |-> <<Base>> \o HrefA1, category |-> "A", fi |-> 0,
      sel |-> 0, rec |-> <<>>, yielded |-> [f \in Range(FieldOrder) |-> NotYielded],
      steps |-> <<>>],
     [pc |-> "goto", url |-> HrefB1, category |-> "B", fi |-> 0,
      sel |-> 0, rec |-> <<>>, yielded |-> [f \in Range(FieldOrder) |-> NotYielded],
      steps |-> <<>>]}

InitExtract ==
    /\ config = DefaultConfig
    /\ pc = "not_called"
    /\ Constructed
    /\ fx \in ExtractCalls
    /\ fmt = NoCall
    /\ ex = NoCall
    /\ lk = NoCall
    /\ bm = NoCall

\* an exception reaches the try block of extract_all_fields
Caught(call, where) ==
    IF coordinator_catches(where)
    THEN [call EXCEPT !.pc = "returned", !.rec = ProductData(call.url)]
    ELSE [call EXCEPT !.pc = "raised"]

\* extract_<field> is over: it returned `value`, or raised
FieldEnds(call, kind, text, value) ==
    LET f    == FieldOrder[call.fi]
        told == [call EXCEPT !.yielded[f] = [kind |-> kind, text |-> text]]
    IN IF kind = "raised" /\ ~field_raise_is_local(f)
       THEN Caught(told, f)
       ELSE IF call.fi < Len(FieldOrder)
       THEN [told EXCEPT !.rec[f] = value, !.fi = call.fi + 1, !.sel = 1]
       ELSE \* product_data.category = category; return product_data
            [told EXCEPT !.rec[f] = value, !.rec.category = call.category,
                         !.pc = "returned"]

\* page.goto(product_url, wait_until="domcontentloaded", timeout=15000)
fx_goto ==
    /\ fx.pc = "goto"
    /\ \E ok \in BOOLEAN :
         fx' = IF ok THEN [fx EXCEPT !.pc = "settle"] ELSE Caught(fx, "goto")
    /\ UNCHANGED <<runVars, bootVars, crawlVars, scrapeVars, csv_rows, throttling, fmt, ex, lk, bm>>

\* wait_for_timeout(3000); product_data = ProductData(url=product_url)
fx_settle ==
    /\ fx.pc = "settle"
    /\ \E ok \in BOOLEAN :
         fx' = IF ok
               THEN [fx EXCEPT !.pc = "field", !.fi = 1, !.sel = 1,
                               !.rec = ProductData(fx.url)]
               ELSE Caught(fx, "settle")
    /\ UNCHANGED <<runVars, bootVars, crawlVars, scrapeVars, csv_rows, throttling, fmt, ex, lk, bm>>

\* what the driver answers to one locator of a field chain: query_selector
\* returns None or an element or raises; inner_text() / get_attribute('src')
\* on the element returns a text (or None for a missing attribute) or raises
LocatorAnswers(field) ==
    {[kind |-> k, text |-> ""] : k \in {"no_element", "query_raised", "read_raised"}}
    \cup {[kind |-> "content", text |-> t] :
            t \in ElementTexts \cup (IF field = "image_url" THEN {AttrNone} ELSE {})}

\* one iteration of `for selector in <field>_selectors` of extract_brand,
\* extract_product_name, extract_sku, extract_image_url, extract_price
fx_locator ==
    /\ fx.pc = "field"
    /\ FieldOrder[fx.fi] \in DOMAIN FieldSelectors
    /\ LET f    == FieldOrder[fx.fi]
           walk == IF fx.sel = 1 THEN StartChain(f) ELSE chain
       IN \E a \in LocatorAnswers(f) :
            IF a.kind \in {"query_raised", "read_raised"}
            THEN /\ chain' = Missed(walk, fx.sel)
                 /\ fx' = FieldEnds(fx, "raised", "", "")
            ELSE IF a.kind = "content" /\ NonBlank(a.text)
            THEN IF returns_on_content(a.text)
                 THEN /\ chain' = Used(Matched(walk, fx.sel), fx.sel)
                      /\ fx' = FieldEnds(fx, "hit", a.text, Normalised(f, a.text))
                 ELSE /\ chain' = Matched(walk, fx.sel)
                      /\ fx' = IF fx.sel < FieldSelectors[f]
                               THEN [fx EXCEPT !.sel = fx.sel + 1]
                               ELSE FieldEnds(fx, "miss", "", "")
            ELSE /\ chain' = Missed(walk, fx.sel)
                 /\ fx' = IF fx.sel < FieldSelectors[f]
                          THEN [fx EXCEPT !.sel = fx.sel + 1]
                          ELSE FieldEnds(fx, "miss", "", "")
    /\ UNCHANGED <<runVars, sel, attempt, guest_result, zip_result, setup_result,
                   poll_enabled, lastConfirmClick, crawlVars, scrapeVars, csv_rows, throttling, fmt, ex, lk, bm>>

\* extract_packaging: one locator, no blank test on its text
fx_packaging ==
    /\ fx.pc = "field"
    /\ FieldOrder[fx.fi] = "packaging"
    /\ \E a \in LocatorAnswers("packaging") :
         fx' = CASE a.kind = "no_element" -> FieldEnds(fx, "miss", "", "")
                 [] a.kind = "content"    ->
                        FieldEnds(fx, "hit", a.text, clean_text_field(a.text))
                 [] OTHER                 -> FieldEnds(fx, "raised", "", "")
    /\ UNCHANGED <<runVars, bootVars, crawlVars, scrapeVars, csv_rows, throttling, fmt, ex, lk, bm>>

\* extract_description: the `else` branch that reads the default container
\* is taken when the 'Read More' button was not found
description_reads_default_mut(found) == TRUE
description_reads_default(found) == ~found

\* the driver calls extract_description makes, in order, when none raises:
\* the query for the 'Read More' button (written by its answer), then click,
\* wait_for_timeout(1000), the query for the expanded container and its
\* inner_text(), or the query for the default container and its inner_text();
\* a container that is not there is not read
DescriptionPlan(found, container) ==
    (IF found
     THEN <<"read_more", "click", "settle", "query_expanded">>
          \o (IF container THEN <<"read_expanded">> ELSE <<>>)
     ELSE <<"no_read_more">>)
    \o (IF description_reads_default(found)
        THEN <<"query_default">> \o (IF container THEN <<"read_default">> ELSE <<>>)
        ELSE <<>>)

\* extract_description, with the calls that returned before it ended in
\* fx.steps; call number raised_at raises (0: none does), and "format" is the
\* call of format_description
fx_description ==
    /\ fx.pc = "field"
    /\ FieldOrder[fx.fi] = "description"
    /\ \E found \in BOOLEAN, container \in BOOLEAN, t \in DescriptionTexts :
         LET plan == DescriptionPlan(found, container)
         IN \E raised_at \in 0..Len(plan) :
              LET made == IF raised_at = 0 THEN plan ELSE SubSeq(plan, 1, raised_at - 1)
                  told == [fx EXCEPT !.steps = made \o (IF raised_at = 0 /\ container /\ t # <<>>
                                                        THEN <<"format">> ELSE <<>>)]
              IN fx' = IF raised_at # 0 THEN FieldEnds(told, "raised", "", "")
                       ELSE IF ~container THEN FieldEnds(told, "miss", "", "")
                       ELSE FieldEnds(told, "hit", t, formatted_description(t))
    /\ UNCHANGED <<runVars, bootVars, crawlVars, scrapeVars, csv_rows, throttling, fmt, ex, lk, bm>>

Extract ==
    \/ fx_goto
    \/ fx_settle
    \/ fx_locator
    \/ fx_packaging
    \/ fx_description

SpecExtract == InitExtract /\ [][Extract]_vars

----------------------------------------------------------------------------
(* Every selector chain walked from its entry: the session bootstrap from   *)
(* run_scraper's start, and the field chains from a call of                 *)
(* extract_all_fields.                                                      *)

InitChains ==
    \/ /\ config = DefaultConfig
       /\ pc = "start_browser"
       /\ Constructed
       /\ fx = NoCall
       /\ fmt = NoCall
       /\ ex = NoCall
       /\ lk = NoCall
       /\ bm = NoCall
    \/ InitExtract

NextChains == Bootstrap \/ Extract

SpecChains == InitChains /\ [][NextChains]_vars

----------------------------------------------------------------------------
(* CSVExporter: one export_products call on every short list of records,    *)
(* with the file system answering each call it makes                        *)

\* the longest list of records explored
MaxRecords == 3

\* a valid record with a name, a valid record with only a sku, a record with
\* a url and no identifying field, a record with a name and no url
SampleRecords ==
    {[ProductData(HrefB1) EXCEPT !.product_name = "Acme", !.price = "Acme"],
     [ProductData(HrefB1) EXCEPT !.sku = "Acme"],
     [ProductData(HrefB1) EXCEPT !.packaging = "Acme"],
     [ProductData(<<>>) EXCEPT !.product_name = "Acme"]}

\* what the file system does during the call: nothing goes wrong, os.makedirs
\* raises, open raises, or writing raises after the header and `rows` rows
\* reached the file
NoFile == [exists |-> FALSE, header |-> FALSE, rows |-> <<>>]

IoOutcomes == {"ok", "makedirs_raised", "open_raised", "write_raised"}

ExportCalls ==
    {[pc |-> "export", products |-> l, returned |-> FALSE, io |-> "none",
      file |-> NoFile] : l \in UNION {[1..k -> SampleRecords] : k \in 0..MaxRecords}}

InitExport ==
    /\ config = DefaultConfig
    /\ pc = "not_called"
    /\ Constructed
    /\ fx = NoCall
    /\ fmt = NoCall
    /\ ex \in ExportCalls
    /\ lk = NoCall
    /\ bm = NoCall

\* CSVExporter.export_products
call_export_products ==
    /\ ex.pc = "export"
    /\ \E io \in IoOutcomes :
         LET dicts == product_dicts(ex.products)
         IN IF io = "makedirs_raised" \/ ex.products = <<>> \/ dicts = <<>>
            THEN ex' = [ex EXCEPT !.pc = "exported", !.io = io, !.returned = FALSE]
            ELSE IF io = "open_raised"
            THEN ex' = [ex EXCEPT !.pc = "exported", !.io = io, !.returned = FALSE]
            ELSE IF io = "write_raised"
            THEN \E h \in BOOLEAN, n \in 0..(Len(dicts) - 1) :
                   /\ ~h => n = 0
                   /\ ex' = [ex EXCEPT !.pc = "exported", !.io = io, !.returned = FALSE,
                                       !.file = [exists |-> TRUE, header |-> h,
                                                 rows |-> SubSeq(dicts, 1, n)]]
            ELSE ex' = [ex EXCEPT !.pc = "exported", !.io = io,
                                  !.returned = export_products(ex.products, TRUE),
                                  !.file = [exists |-> TRUE, header |-> TRUE,
                                            rows |-> dicts]]
    /\ UNCHANGED <<runVars, bootVars, crawlVars, scrapeVars, csv_rows, throttling, fx, fmt, lk, bm>>

NextExport == call_export_products

SpecExport == InitExport /\ [][NextExport]_vars

----------------------------------------------------------------------------
(* CategoryExtractor.extract_product_links_from_current_page: one call      *)
(* followed locator by locator, on a listing page given as its anchors in   *)
(* document order.  A class attribute is written as its tokens, like an     *)
(* href, so that the substring tests of the locators can be computed.       *)

\* an anchor of a listing page: its href, its class attribute, and the class
\* of the element it is inside (<<>> when it has none)
Anchor(href, class, within) == [href |-> href, class |-> class, within |-> within]

ProductCardLink == <<"product", "-", "card", "-", "link">>
ProductCard     == <<"product", "-", "card">>

\* product_selectors: what each locator tests, the anchor's class ("class" for
\* a.<class>, "class*" for [class*=...]), a pattern in its href ("href*"),
\* the class of an ancestor ("within", "within*"); "absent" marks a locator
\* for an attribute or an ancestor that no anchor of the pages below has
product_selectors ==
    << [on |-> "class",   pat |-> ProductCardLink],
       [on |-> "href*",   pat |-> <<"/", "app", "/", "product-details", "/">>],
       [on |-> "class*",  pat |-> ProductCard],
       [on |-> "href*",   pat |-> <<"/", "product", "/">>],
       [on |-> "href*",   pat |-> <<"/", "item", "/">>],
       [on |-> "href*",   pat |-> <<"/", "detail", "/">>],
       [on |-> "class",   pat |-> <<"product", "-", "link">>],
       [on |-> "within*", pat |-> <<"product">>],
       [on |-> "within*", pat |-> <<"item">>],
       [on |-> "within",  pat |-> ProductCard],
       [on |-> "absent",  pat |-> <<>>],
       [on |-> "absent",  pat |-> <<>>],
       [on |-> "within",  pat |-> <<"grid", "-", "item">>],
       [on |-> "absent",  pat |-> <<>>],
       [on |-> "within*", pat |-> <<"product">>],
       [on |-> "within*", pat |-> <<"item">>] >>

\* whether query_selector_all(selector) returns the anchor
selector_matches(selector, a) ==
    CASE selector.on = "class"   -> a.class = selector.pat
      [] selector.on = "class*"  -> Contains(a.class, selector.pat)
      [] selector.on = "href*"   -> Contains(a.href, selector.pat)
      [] selector.on = "within"  -> a.within = selector.pat
      [] selector.on = "within*" -> Contains(a.within, selector.pat)
      [] selector.on = "absent"  -> FALSE

\* the listing pages explored: product cards whose hrefs are site-relative
\* and absolute; a card with an href relative to the current path and a
\* plain link to a detail page; a page without product links
LinkPages ==
    { << Anchor(HrefA1, ProductCardLink, <<>>),
         Anchor(HrefSAbs, <<>>, ProductCard),
         Anchor(HrefSRel, <<>>, ProductCard) >>,
      << Anchor(HrefB1, ProductCardLink, <<>>),
         Anchor(HrefB9, <<>>, <<>>) >>,
      << Anchor(<<"/", "app", "/", "help">>, <<>>, <<>>),
         Anchor(<<>>, ProductCardLink, <<>>) >> }

\* `if href and ('/product/' in href or ...)`: page_products.add(full_url)
added_urls(elements) ==
    {full_url(e.href) : e \in {x \in Range(elements) : href_passes(x.href)}}

LinkCalls ==
    {[pc |-> "selector", page |-> p, si |-> 1, page_products |-> {},
      raised |-> FALSE, out |-> <<>>] : p \in LinkPages}

InitLinks ==
    /\ config = DefaultConfig
    /\ pc = "not_called"
    /\ Constructed
    /\ fx = NoCall
    /\ fmt = NoCall
    /\ ex = NoCall
    /\ lk \in LinkCalls
    /\ bm = NoCall

\* one iteration of `for selector in product_selectors`: query_selector_all
\* raises, or returns the matching anchors, of which the first n are read
\* before get_attribute('href') raises (n = all of them when it does not);
\* either exception is swallowed by `except Exception: continue`
lk_selector ==
    /\ lk.pc = "selector"
    /\ LET elements == SelectSeq(lk.page,
                          LAMBDA a : selector_matches(product_selectors[lk.si], a))
       IN \E query_ok \in BOOLEAN, n \in 0..Len(elements) :
            LET found == IF query_ok THEN added_urls(SubSeq(elements, 1, n)) ELSE {}
                all   == lk.page_products \cup found
                fault == ~query_ok \/ n < Len(elements)
            IN /\ ~query_ok => n = 0
               /\ lk' = IF lk.si < Len(product_selectors)
                        THEN [lk EXCEPT !.si = lk.si + 1, !.page_products = all,
                                        !.raised = lk.raised \/ fault]
                        ELSE IF all = {}
                        THEN [lk EXCEPT !.pc = "debug", !.page_products = all,
                                        !.raised = lk.raised \/ fault]
                        ELSE [lk EXCEPT !.pc = "returned", !.page_products = all,
                                        !.raised = lk.raised \/ fault,
                                        !.out = SetToSeq(all)]
    /\ UNCHANGED <<runVars, bootVars, crawlVars, scrapeVars, csv_rows, throttling,
                   fx, fmt, ex, bm>>

\* `if len(page_products) == 0`: page.title() and query_selector_all('a') are
\* outside the inner try blocks; when one raises, the outer handler returns []
lk_debug ==
    /\ lk.pc = "debug"
    /\ \E ok \in BOOLEAN :
         lk' = [lk EXCEPT !.pc = "returned", !.raised = lk.raised \/ ~ok,
                          !.out = IF ok THEN SetToSeq(lk.page_products) ELSE <<>>]
    /\ UNCHANGED <<runVars, bootVars, crawlVars, scrapeVars, csv_rows, throttling,
                   fx, fmt, ex, bm>>

NextLinks == lk_selector \/ lk_debug

SpecLinks == InitLinks /\ [][NextLinks]_vars

----------------------------------------------------------------------------
(* BrowserManager.start_browser and close_browser: the resources of one     *)
(* manager, followed statement by statement.  close_browser is invoked by   *)
(* the handler of start_browser when starting fails, and by the finally     *)
(* clause of run_scraper in every case.                                     *)

\* self.playwright, self.browser, self.page, in the order close_browser tests them
CloseOrder == <<"page", "browser", "playwright">>

\* the statements of start_browser, and the attribute each one sets ("" for
\* self.context, which close_browser does not read, and for page.route)
StartOrder == <<"start_playwright", "launch", "new_context", "new_page", "route">>
StartSets ==
    [start_playwright |-> "playwright", launch |-> "browser", new_context |-> "",
     new_page |-> "page", route |-> ""]

\* a manager as constructed: the three attributes are None
BrowserManagers ==
    {[pc |-> "start", step |-> 1, blocking |-> b, started |-> {}, invoked |-> <<>>,
      close_calls |-> 0, start_failed |-> FALSE, close_raised |-> FALSE] :
        b \in BOOLEAN}

InitTeardown ==
    /\ config = DefaultConfig
    /\ pc = "not_called"
    /\ Constructed
    /\ fx = NoCall
    /\ fmt = NoCall
    /\ ex = NoCall
    /\ lk = NoCall
    /\ bm \in BrowserManagers

\* `except Exception as e: print(...)` around the three statements of
\* close_browser
close_catches(resource) == TRUE

\* close_browser is entered: by the handler of start_browser, or by the
\* finally clause of run_scraper
EnterClose(m) == [m EXCEPT !.pc = "close", !.step = 1, !.close_calls = m.close_calls + 1]

\* close_browser is left; after the call made by start_browser's handler the
\* exception is re-raised and run_scraper's finally clause calls it again
LeaveClose(m) ==
    IF m.start_failed /\ m.close_calls = 1 THEN EnterClose(m)
    ELSE [m EXCEPT !.pc = "closed"]

\* one statement of start_browser: it returns and sets its attribute, or
\* raises; page.route is called only with enable_resource_blocking
bm_start ==
    /\ bm.pc = "start"
    /\ LET stmt   == StartOrder[bm.step]
           skip   == stmt = "route" /\ ~bm.blocking
           sets   == IF StartSets[stmt] = "" THEN {} ELSE {StartSets[stmt]}
       IN \E ok \in BOOLEAN :
            /\ skip => ok
            /\ bm' = IF ~ok
                     THEN EnterClose([bm EXCEPT !.start_failed = TRUE])
                     ELSE IF bm.step < Len(StartOrder)
                     THEN [bm EXCEPT !.step = bm.step + 1,
                                     !.started = bm.started \cup sets]
                     ELSE [bm EXCEPT !.pc = "started", !.started = bm.started \cup sets]
    /\ UNCHANGED <<runVars, bootVars, crawlVars, scrapeVars, csv_rows, throttling,
                   fx, fmt, ex, lk>>

\* the run between start_browser and the finally clause of run_scraper
bm_run ==
    /\ bm.pc = "started"
    /\ bm' = EnterClose(bm)
    /\ UNCHANGED <<runVars, bootVars, crawlVars, scrapeVars, csv_rows, throttling,
                   fx, fmt, ex, lk>>

\* one statement of close_browser: `if self.<resource>: await
\* self.<resource>.close()` (stop() for playwright); the attribute is not
\* reset, so a second call invokes the operation again
bm_close ==
    /\ bm.pc = "close"
    /\ LET resource == CloseOrder[bm.step]
           next(m)  == IF bm.step < Len(CloseOrder)
                       THEN [m EXCEPT !.step = bm.step + 1]
                       ELSE LeaveClose(m)
       IN IF resource \notin bm.started
          THEN bm' = next(bm)
          ELSE \E ok \in BOOLEAN :
                 LET called == [bm EXCEPT !.invoked =
                                  Append(bm.invoked, [call |-> bm.close_calls,
                                                      resource |-> resource, ok |-> ok])]
                 IN bm' = IF ok THEN next(called)
                          ELSE IF close_catches(resource) THEN LeaveClose(called)
                          ELSE [called EXCEPT !.pc = "closed", !.close_raised = TRUE]
    /\ UNCHANGED <<runVars, bootVars, crawlVars, scrapeVars, csv_rows, throttling,
                   fx, fmt, ex, lk>>

NextTeardown == bm_start \/ bm_run \/ bm_close

SpecTeardown == InitTeardown /\ [][NextTeardown]_vars

----------------------------------------------------------------------------
(* Properties *)

IsFailure(zres) == zres \in {"no_input", "no_confirm", "error"}

\* the validity invariant of the data model, stated on a record
ValidRecord(p) ==
    /\ p.url # <<>>
    /\ (p.product_name # "" \/ p.brand # "" \/ p.sku # "")

RECURSIVE ValidOnes(_)
\* the valid records among the ones scrape_product returned, in work-list order
ValidOnes(recs) ==
    IF recs = <<>> THEN <<>>
    ELSE (IF ValidRecord(Head(recs)) THEN <<Head(recs)>> ELSE <<>>)
         \o ValidOnes(Tail(recs))

\* C1: in bounded-parallel dispatch over the one shared page, navigation is
\* serialized, so every field of an accepted record carries the text of the
\* page loaded for that record's own URL.
C1_FieldsReadFromOwnPage ==
    \A i \in DOMAIN products : \A k \in DOMAIN FieldOrder :
        products[i][FieldOrder[k]] \in {"", PageId(products[i].url)}

\* C2: every record held in self.products, in every reachable state and in
\* both dispatch modes, has a non-empty url and a non-empty product_name,
\* brand or sku.
C2_ProductsValid ==
    \A i \in DOMAIN products : ValidRecord(products[i])

\* C2 witness: a bounded-parallel dispatch has finished, dropped a record with
\* no identifying field and accepted one whose only identifying field is sku.
C2_Witness ==
    /\ pc = "export" /\ mode = "async"
    /\ \E t \in DOMAIN tasks : tasks[t].result = <<>> /\ tasks[t].rec.packaging # ""
    /\ \E i \in DOMAIN products :
          products[i].brand = "" /\ products[i].product_name = "" /\ products[i].sku # ""

\* C3 as stated: bounded-parallel dispatch is used if and only if the
\* work-list size is at or below async_batch_size.
C3_ThresholdOnly ==
    mode # "none" =>
        (mode = "async" <=> Len(products_to_process) <= config.async_batch_size)

\* C3 amended: bounded-parallel dispatch is used if and only if
\* enable_async_scraping is set and the work-list size is at or below
\* async_batch_size; sequential dispatch otherwise.
C3_ToggleAndThreshold ==
    mode # "none" =>
        (mode = "async" <=> (config.enable_async_scraping
                             /\ Len(products_to_process) <= config.async_batch_size))

\* C3 witness: the toggle is set and the work list is exactly one item over
\* the batch size, so the dispatch is sequential.
C3_Witness ==
    /\ mode = "sequential" /\ config.enable_async_scraping
    /\ Len(products_to_process) = config.async_batch_size + 1

\* C4: in both dispatch modes every item of the truncated work list is
\* attempted exactly once whatever happens to the others, and when the
\* dispatch step ends the accepted list is exactly the valid records returned,
\* the run still going.
C4_PerItemIsolation ==
    /\ \A t \in DOMAIN tasks : tasks[t].attempts <= 1
    /\ pc = "export" =>
          /\ run_result = "running"
          /\ \A t \in DOMAIN tasks : tasks[t].attempts = 1 /\ tasks[t].status = "done"
          /\ products = ValidOnes([t \in DOMAIN tasks |-> tasks[t].rec])

\* C4 witness: a three-item dispatch ended in which the first item's page
\* failed to load and a later item was accepted.
C4_Witness ==
    /\ pc = "export" /\ Len(tasks) = 3
    /\ tasks[1].rec = ProductData(products_to_process[1].url)
    /\ \E t \in 2..3 : tasks[t].result # <<>>

C6_ZipFailureNonFatal ==
    IsFailure(zip_result) =>
        /\ setup_result = "ok"
        /\ pc = "collect_product_urls" /\ run_result = "running"
        /\ phase_log = <<"setup", "collect">>

\* C6 witness: every confirm selector was tried and none was clicked, and the
\* run is at _collect_product_urls.
C6_Witness ==
    zip_result = "no_confirm" /\ pc = "collect_product_urls"

\* C7: a resolved confirm control is polled at most 10 times and is clicked
\* only after a poll observed it enabled.
C7_ClickOnlyAfterEnabledPoll ==
    /\ attempt <= MaxPollAttempts
    /\ lastConfirmClick.clicked =>
          lastConfirmClick.enabled /\ lastConfirmClick.polls <= MaxPollAttempts

\* C8: extract_all_product_urls processes at most 10 pages, also when a 'next'
\* control is resolvable and enabled on every page.
C8_PageCap ==
    pages_done <= 10 /\ page_num <= 10

\* C8 witness: the crawl returned after its tenth page, on which the 'next'
\* control was enabled and its click worked.
C8_Witness ==
    pc = "record_category" /\ pages_done = 10 /\ lastNextClick = AttrNone

\* C9: on every return path of extract_all_product_urls the returned
\* collection contains each URL exactly once.
C9_ReturnedOnce ==
    \A i, j \in DOMAIN crawl_result : i # j => crawl_result[i] # crawl_result[j]

\* C10: the crawler never clicks a 'next page' control that carries a disabled
\* attribute, whatever its value.
C10_NeverClicksDisabledNext ==
    lastNextClick \in {NotClicked, AttrNone}

\* position of a category in config.categories_to_scrape
CatIndex(category) == CHOOSE i \in DOMAIN Categories : Categories[i] = category

\* the (category, url) pairs the crawls of this run collected into the map
CollectedPairs ==
    UNION {{<<category_to_urls_map[k].category, u>> :
               u \in Range(category_to_urls_map[k].urls)} :
           k \in DOMAIN category_to_urls_map}

\* the chains whose loop body acts on the matched element inside a try block
\* that goes on to the next locator: guest-entry and confirm-control
ActingChains == {"guest", "confirm"}

C11_WitnessFallThrough ==
    /\ chain.name = "guest"
    /\ chain.matched_at = 1
    /\ chain.failed = 1
    /\ chain.used_at = 3

\* C12: whatever the driver raises during navigation, the settle wait or a
\* field's resolution, extract_all_fields returns (never raises) a record
\* whose url is the URL it was called with.
C12_CoordinatorNeverRaises ==
    /\ fx.pc # "raised"
    /\ fx.pc = "returned" =>
          /\ DOMAIN fx.rec = DOMAIN ProductData(fx.url)
          /\ fx.rec.url = fx.url

\* C12 witness: navigation or the settle wait raised and the call returned a record with
\* its url and every other field empty
C12_Witness ==
    /\ fx.pc = "returned"
    /\ \A f \in Range(FieldOrder) : fx.yielded[f].kind = "none"
    /\ fx.rec = ProductData(fx.url)
    /\ fx.rec.url # <<>>

\* what a field's own resolution amounts to
FieldValue(f, y) ==
    CASE y.kind \in {"none", "miss", "raised"} -> ""
      [] y.kind = "hit" /\ f = "description"   -> formatted_description(y.text)
      [] y.kind = "hit" /\ f = "image_url"     -> strip_text(y.text)
      [] OTHER                                 -> clean_text_field(y.text)

\* C13: in the record extract_all_fields returns after the page loaded, a
\* field whose chain found no match or raised is the empty string, every
\* other field has the value its own chain yielded, and every field was
\* attempted; while the fields are being resolved the same holds of the
\* fields done so far.
C13_FieldIsolation ==
    /\ fx.pc \in {"field", "returned"} =>
          \A i \in 1..Len(FieldOrder) :
             LET f == FieldOrder[i]
             IN (fx.pc = "returned" \/ i < fx.fi) /\ fx.fi > 0 =>
                   fx.rec[f] = FieldValue(f, fx.yielded[f])
    /\ fx.pc = "returned" /\ fx.fi > 0 =>
          \A f \in Range(FieldOrder) : fx.yielded[f].kind # "none"

\* C13 witness: brand raised and sku found nothing, both are empty, and the
\* fields before, between and after them carry what their chains yielded
C13_Witness ==
    /\ fx.pc = "returned"
    /\ fx.yielded.brand.kind = "raised"
    /\ fx.rec.brand = ""
    /\ fx.yielded.sku.kind = "miss"
    /\ fx.rec.sku = ""
    /\ fx.rec.product_name = "Acme"
    /\ fx.rec.price = "Acme"
    /\ fx.rec.description = "<formatted>"
    /\ fx.rec.category = fx.category

\* a '$'-prefixed numeric token at index i of text: the sign, a digit, further
\* digits and thousands separators, and a point only when digits follow it
NumericTokenAt(text, i) ==
    LET j == RunEnd(text, i + 1, {"1", ","})
        e == IF j + 1 < Len(text) /\ text[j + 1] = "." /\ IsDigit(text[j + 2])
             THEN RunEnd(text, j + 2, {"1"})
             ELSE j
    IN SubSeq(text, i, e)

\* where the '$'-prefixed numeric tokens of text start
NumericTokenStarts(text) ==
    {i \in 1..(Len(text) - 1) : text[i] = "$" /\ IsDigit(text[i + 1])}

\* C21: clean_price returns the first '$'-prefixed numeric token of the price
\* text when there is one, and the whitespace-cleaned text otherwise.
C21_FirstNumericToken ==
    fmt.pc = "priced" =>
       LET cleaned == CollapseSpaces(strip(fmt.text))
           starts  == NumericTokenStarts(cleaned)
       IN IF starts = {}
          THEN fmt.out = cleaned
          ELSE fmt.out = NumericTokenAt(cleaned, CHOOSE k \in starts : \A m \in starts : k <= m)

\* C22 (as stated): on an empty list or a list with no valid record
\* export_products returns failure and writes no file and no data row;
\* otherwise it writes the header and exactly one row per valid record, in
\* order, and returns success.
C22_FailureOnlyWithoutValidRecord ==
    ex.pc = "exported" =>
       IF ex.products = <<>> \/ ValidOnes(ex.products) = <<>>
       THEN ~ex.returned /\ ex.file = NoFile
       ELSE /\ ex.returned
            /\ ex.file = [exists |-> TRUE, header |-> TRUE,
                          rows |-> ValidOnes(ex.products)]

\* C22 (amended): the same, except that a list with a valid record is
\* written and reported as success only when no file-system call raises;
\* when one raises the call returns failure, and the file, if it was opened,
\* holds no row of an invalid record and no more than a proper prefix of the
\* valid ones.
C22_FailureWithoutValidRecordOrOnIoError ==
    ex.pc = "exported" =>
       IF ex.products = <<>> \/ ValidOnes(ex.products) = <<>>
       THEN ~ex.returned /\ ex.file = NoFile
       ELSE IF ex.io = "ok"
       THEN /\ ex.returned
            /\ ex.file = [exists |-> TRUE, header |-> TRUE,
                          rows |-> ValidOnes(ex.products)]
       ELSE /\ ~ex.returned
            /\ ex.io \in {"makedirs_raised", "open_raised"} => ex.file = NoFile
            /\ Len(ex.file.rows) < Len(ValidOnes(ex.products))
            /\ ex.file.rows = SubSeq(ValidOnes(ex.products), 1, Len(ex.file.rows))

\* C22 witness: a list with an invalid record between two valid ones was
\* exported as the header and the two valid rows
C22_Witness ==
    /\ ex.pc = "exported" /\ ex.returned
    /\ Len(ex.products) = 3
    /\ ~ValidRecord(ex.products[2])
    /\ ex.file.header
    /\ ex.file.rows = <<ex.products[1], ex.products[3]>>

\* C22 witness of failure: a list of invalid records only was refused and no
\* file was opened although the file system was ready
C22_WitnessAllInvalid ==
    /\ ex.pc = "exported" /\ ~ex.returned /\ ex.io = "ok"
    /\ Len(ex.products) = 2
    /\ ex.file = NoFile

\* C23: a call of the exported function run_scraper(config) ends with the
\* boolean the orchestrator's run returned (or is interrupted, like a run
\* started through the method), never with an exception of its own.
C23_FunctionReturnsRunResult ==
    pc = "done" => run_result \in {"success", "failure", "interrupted"}

\* where run_scraper is while navigate_to_sysco (landing, guest entry) runs
LandingPcs == {"navigate_to_sysco", "guest_login", "guest_wait"}

\* where run_scraper is while handle_zip_code_modal runs
LocationPcs == {"zip_wait", "zip_input", "zip_type", "zip_settle", "confirm_find",
                "confirm_poll", "confirm_click"}

\* no category was selected or crawled and no product extracted
NothingCrawled ==
    /\ ci = 0 /\ select_log = <<>> /\ category_to_urls_map = <<>>
    /\ product_urls = <<>> /\ pages_done = 0
    /\ all_products_to_scrape = <<>> /\ products_to_process = <<>>
    /\ mode = "none" /\ tasks = <<>> /\ products = <<>>

C25_BootstrapTerminates ==
    <>(pc \in {"collect_product_urls", "done"})

\* C25 witness: the bootstrap ended after the last confirm locator was
\* polled the full ten times
C25_Witness ==
    /\ pc = "collect_product_urls"
    /\ sel = StartShoppingSelectors
    /\ attempt = MaxPollAttempts
    /\ chain.name = "confirm" /\ Len(chain.queried) = StartShoppingSelectors

\* C26: when a category crawl starts no earlier crawl is still waiting for its
\* throttle() call, and when the sequential loop starts an extraction no
\* earlier extraction is, whatever the earlier item returned; throttle() was
\* called at least once per item the sequential loop finished; and every
\* sleep it made lasted throttle_seconds, which is positive.
C26_ThrottleBetweenOperations ==
    /\ pc = "crawl_goto" => throttling.pending # "crawl"
    /\ mode = "sequential" =>
          /\ (\E t \in DOMAIN tasks : tasks[t].status # "done") =>
                throttling.pending # "extract"
          /\ throttling.calls >=
                Cardinality({t \in DOMAIN tasks : tasks[t].status = "done"})
    /\ throttling.slept \subseteq ({config.throttle_seconds} \ {0})
    /\ config.throttle_seconds > 0 /\ throttling.calls > 0 =>
          throttling.slept = {config.throttle_seconds}

\* C26 witness: the sequential loop is at its second item after a first item
\* whose page did not load, and throttle() has slept after the crawl and
\* after that item
C26_Witness ==
    /\ pc = "scrape_sequential" /\ mode = "sequential"
    /\ Len(tasks) = 2
    /\ tasks[1].status = "done" /\ tasks[1].result = <<>> /\ tasks[1].rec.product_name = ""
    /\ tasks[2].status = "goto"
    /\ throttling.calls >= 2
    /\ throttling.pending = "none"
    /\ throttling.slept = {5}

\* C26 witness for categories: the second category is about to be crawled
\* after the first was crawled and throttled
C26_WitnessCategories ==
    /\ pc = "crawl_goto" /\ ci = 2
    /\ select_log = <<"crawled", "crawled">>
    /\ throttling.calls = 1

\* the calls extract_description made
DescriptionSteps == Range(fx.steps)

\* C27: extract_description queries and reads the expanded container only
\* after the 'Read More' button resolved, was clicked and the settle wait
\* elapsed; it queries the default container exactly when the query for the
\* button found none; it never reads both containers; and the text it read is
\* returned through format_description.
C27_ExpandThenReread ==
    fx.pc \in {"field", "returned"} /\ fx.yielded.description.kind # "none" =>
       LET y == fx.yielded.description
       IN /\ DescriptionSteps \cap {"query_expanded", "read_expanded"} # {} =>
                /\ Len(fx.steps) >= 4
                /\ SubSeq(fx.steps, 1, 4) = <<"read_more", "click", "settle", "query_expanded">>
          /\ "query_default" \in DescriptionSteps =>
                fx.steps[1] = "no_read_more" /\ fx.steps[2] = "query_default"
          /\ fx.steps # <<>> /\ fx.steps[1] = "no_read_more" /\ y.kind # "raised" =>
                "query_default" \in DescriptionSteps
          /\ ~({"query_expanded", "query_default"} \subseteq DescriptionSteps)
          /\ ~({"read_expanded", "read_default"} \subseteq DescriptionSteps)
          /\ y.kind = "hit" =>
                /\ DescriptionSteps \cap {"read_expanded", "read_default"} # {}
                /\ "format" \in DescriptionSteps <=> y.text # <<>>
                /\ fx.rec.description = formatted_description(y.text)
          /\ y.kind # "hit" => "format" \notin DescriptionSteps /\ fx.rec.description = ""

\* C27 witness: the button resolved and was clicked, and the expanded
\* container was read and formatted
C27_Witness ==
    /\ fx.pc = "returned"
    /\ fx.steps = <<"read_more", "click", "settle", "query_expanded", "read_expanded",
                    "format">>
    /\ fx.rec.description = "<formatted>"

\* C27 witness without the button: the default container was read
C27_WitnessDefault ==
    /\ fx.pc = "returned"
    /\ fx.steps = <<"no_read_more", "query_default", "read_default", "format">>
    /\ fx.rec.description = "<formatted>"

\* C28 (as stated): for a text longer than max_length, when the first
\* max_length characters contain a period and the prefix that ends with the
\* last such period has at least 70% of max_length characters, the output is
\* that prefix; otherwise it is the first max_length characters without
\* trailing whitespace, followed by "...".
C28_KeepsSentenceAtSeventyPercent ==
    fmt.pc = "limited" /\ Len(fmt.text) > fmt.max_length =>
       LET truncated   == SubSeq(fmt.text, 1, fmt.max_length)
           last_period == rfind(truncated, ".")
       IN IF last_period >= 0 /\ 10 * (last_period + 1) >= 7 * fmt.max_length
          THEN fmt.out = SubSeq(fmt.text, 1, last_period + 1)
          ELSE fmt.out = rstrip(truncated) \o Ellipsis

\* C28 (amended): the prefix that ends with the last period is the output
\* when the 0-based index of that period is greater than 70% of max_length,
\* that is when the prefix has more than 0.7 * max_length + 1 characters;
\* otherwise the output is the hard truncation.
C28_KeepsSentenceAboveSeventyPercentIndex ==
    fmt.pc = "limited" /\ Len(fmt.text) > fmt.max_length =>
       LET truncated   == SubSeq(fmt.text, 1, fmt.max_length)
           last_period == rfind(truncated, ".")
       IN IF 10 * (last_period + 1) > 7 * fmt.max_length + 10
          THEN fmt.out = SubSeq(fmt.text, 1, last_period + 1)
          ELSE fmt.out = rstrip(truncated) \o Ellipsis

\* C28 witness: a text longer than max_length came back cut after its last
\* period within the limit, without the marker
C28_Witness ==
    /\ fmt.pc = "limited" /\ Len(fmt.text) > fmt.max_length
    /\ Len(fmt.out) <= fmt.max_length
    /\ fmt.out # <<>> /\ fmt.out[Len(fmt.out)] = "."
    /\ fmt.out = SubSeq(fmt.text, 1, Len(fmt.out))

\* the keyword sets in the stated priority order, with their buckets
StatedPriority ==
    <<[bucket |-> "COOKING_INSTRUCTIONS", keywords |-> CookingKeywords],
      [bucket |-> "SPECIFICATIONS", keywords |-> SpecificationKeywords],
      [bucket |-> "FEATURES", keywords |-> FeatureKeywords]>>

\* the bucket of the first keyword set in the stated priority order that the
\* sentence matches without regard to case, PRODUCT when it matches none
StatedBucket(sentence) ==
    LET hits == {k \in DOMAIN StatedPriority :
                    \E i \in DOMAIN sentence :
                       Lower(sentence[i]) \in StatedPriority[k].keywords}
    IN IF hits = {} THEN "PRODUCT"
       ELSE StatedPriority[CHOOSE k \in hits : \A m \in hits : k <= m].bucket

\* C29: the four buckets _organize_into_sections returns hold, sentence by
\* sentence and in input order, exactly the sentences of the text whose
\* bucket by the stated priority they are, so every sentence is in exactly
\* one bucket, and a sentence with a cooking and a specification keyword is
\* in COOKING_INSTRUCTIONS.
C29_SentenceClassification ==
    fmt.pc = "organized" =>
       /\ DOMAIN fmt.out = {"PRODUCT", "SPECIFICATIONS", "FEATURES", "COOKING_INSTRUCTIONS"}
       /\ \A key \in DOMAIN fmt.out :
             Sentences(fmt.out[key]) =
                SelectSeq(Sentences(fmt.text), LAMBDA x : StatedBucket(x) = key)

\* C29 witness: a sentence with a cooking keyword (capitalised) and a
\* specification keyword was filed under COOKING_INSTRUCTIONS, and the plain
\* sentence before it under PRODUCT
C29_Witness ==
    /\ fmt.pc = "organized"
    /\ fmt.text = <<"Cook", " ", "oz">>
    /\ fmt.out["COOKING_INSTRUCTIONS"] = <<"Cook", " ", "oz", ".">>
    /\ fmt.out["SPECIFICATIONS"] = <<>>

\* C29 witness for order: two sentences of one bucket kept their input order
C29_WitnessOrder ==
    /\ fmt.pc = "organized"
    /\ Len(Sentences(fmt.text)) = 2
    /\ Sentences(fmt.text)[1] # Sentences(fmt.text)[2]
    /\ Sentences(fmt.out["SPECIFICATIONS"]) = Sentences(fmt.text)

\* no leading or trailing whitespace, no two whitespace characters in a row,
\* only allowed characters
NormalForm(s) ==
    /\ s # <<>> => ~IsSpace(s[1]) /\ ~IsSpace(s[Len(s)])
    /\ \A i \in 1..(Len(s) - 1) : ~(IsSpace(s[i]) /\ IsSpace(s[i + 1]))
    /\ \A i \in DOMAIN s : IsAllowed(s[i])

\* C30: what clean_text_field returns has no leading or trailing whitespace,
\* no run of two or more whitespace characters and only allowed characters,
\* and cleaning it again gives it back.
C30_NormalFormAndIdempotent ==
    /\ fmt.pc \in {"cleaned", "cleaned_again"} => NormalForm(fmt.out)
    /\ fmt.pc = "cleaned_again" => fmt.again = fmt.out

\* C14: run_scraper returns success exactly when the export step completed
\* having written at least one valid record; a run that ends with no valid
\* record returns failure also when nothing raised.
C14_SuccessIffRowsWritten ==
    /\ pc # "done" => csv_rows = <<>> /\ run_result = "running"
    /\ pc = "done" =>
          /\ run_result = "success" <=> csv_rows # <<>>
          /\ \A i \in DOMAIN csv_rows : ValidRecord(csv_rows[i])
          /\ run_result = "success" => csv_rows = products /\ products # <<>>

\* C14 witness: a run went through every phase, every dispatched item came
\* back without an identifying field, and run_scraper returned failure.
C14_Witness ==
    /\ pc = "done" /\ run_result = "failure"
    /\ phase_log = <<"setup", "collect", "scrape", "export", "close">>
    /\ tasks # <<>> /\ products = <<>>
    /\ \A t \in DOMAIN tasks : tasks[t].rec.packaging # ""

\* C15: on every path out of run_scraper (a return of either value, the
\* exception of a failed browser start, an interrupt in any phase)
\* close_browser has been invoked when run_scraper finishes, and never while
\* the run is still going.
C15_ClosedOnEveryExit ==
    /\ pc = "done" => close_calls >= 1 /\ phase_log[Len(phase_log)] = "close"
    /\ pc # "done" => close_calls = 0

\* C15 witness: the run was interrupted during product scraping and the
\* browser was closed.
C15_Witness ==
    /\ pc = "done" /\ run_result = "interrupted"
    /\ phase_log = <<"setup", "collect", "scrape", "close">>
    /\ close_calls = 1

\* C16: the flattened work list has exactly one entry per distinct
\* (category, url) pair collected, in configured category order, and none for
\* a category whose selection failed; with max_products > 0 the dispatched
\* items are the leading max_products entries (all of them when there are
\* fewer) and at most max_products records are accepted; with max_products = 0
\* every entry is dispatched.
C16_WorkList ==
    mode # "none" =>
        LET all  == all_products_to_scrape
            work == products_to_process
            m    == config.max_products
        IN /\ \A i, j \in DOMAIN all : i # j => all[i] # all[j]
           /\ {<<all[i].category, all[i].url>> : i \in DOMAIN all} = CollectedPairs
           /\ \A i, j \in DOMAIN all :
                 i < j => CatIndex(all[i].category) <= CatIndex(all[j].category)
           /\ \A i \in DOMAIN all : select_log[CatIndex(all[i].category)] = "crawled"
           /\ Len(work) = (IF m > 0 /\ m < Len(all) THEN m ELSE Len(all))
           /\ \A i \in DOMAIN work : work[i] = all[i]
           /\ Len(tasks) = Len(work)
           /\ m > 0 => Len(products) <= m

\* C16 witness: category A gave 3 URLs, the selection of B failed,
\* max_products is 2: 3 entries all tagged A, 2 of them dispatched, both
\* accepted.
C16_Witness ==
    /\ pc = "export" /\ config.max_products = 2
    /\ select_log = <<"crawled", "skipped">>
    /\ Len(all_products_to_scrape) = 3
    /\ \A i \in DOMAIN all_products_to_scrape : all_products_to_scrape[i].category = "A"
    /\ Len(products_to_process) = 2 /\ Len(products) = 2

\* C17: whichever categories select_category fails on, every configured
\* category is still put to select_category, in configured order; each one
\* selected is crawled; and the URL map holds entries only for selected
\* categories, in configured order.
C17_SkippedCategoryNotFatal ==
    /\ Len(select_log) <= Len(Categories)
    /\ pc \in {"crawl_goto", "crawl_settle", "crawl_links", "next_page",
               "record_category"} =>
          Len(select_log) = ci /\ select_log[ci] = "crawled"
    /\ pc = "select_category" => Len(select_log) = ci - 1
    /\ pc \in {"scrape_products", "scrape_async", "scrape_sequential", "export"} =>
          Len(select_log) = Len(Categories)
    /\ run_result = "failure" /\ phase_log = <<"setup", "collect", "close">> =>
          Len(select_log) = Len(Categories)
    /\ \A k \in DOMAIN category_to_urls_map :
          /\ CatIndex(category_to_urls_map[k].category) <= Len(select_log)
          /\ select_log[CatIndex(category_to_urls_map[k].category)] = "crawled"
    /\ \A k, l \in DOMAIN category_to_urls_map :
          k < l => CatIndex(category_to_urls_map[k].category)
                     < CatIndex(category_to_urls_map[l].category)

\* C17 witness: the first category could not be selected, the second was
\* selected and crawled, and its URLs are what the run goes on to scrape.
C17_Witness ==
    /\ pc = "scrape_products"
    /\ select_log = <<"skipped", "crawled">>
    /\ Len(category_to_urls_map) = 1 /\ category_to_urls_map[1].category = "B"

\* C18: _limit_section_length returns a text of at most max_length + 3
\* characters, and returns its argument unchanged when that has at most
\* max_length characters; also on the text it returned itself.
C18_TruncationLaw ==
    /\ fmt.pc \in {"limited", "limited_again"} =>
          /\ Len(fmt.out) <= fmt.max_length + 3
          /\ Len(fmt.text) <= fmt.max_length => fmt.out = fmt.text
    /\ fmt.pc = "limited_again" =>
          /\ Len(fmt.again) <= fmt.max_length + 3
          /\ Len(fmt.out) <= fmt.max_length => fmt.again = fmt.out

\* C18 witness: a text longer than max_length came back as its first
\* max_length characters followed by the three-character marker.
C18_Witness ==
    /\ fmt.pc = "limited" /\ Len(fmt.text) > fmt.max_length
    /\ fmt.out = SubSeq(fmt.text, 1, fmt.max_length) \o <<".", ".", ".">>

\* C19: truncating the output of _limit_section_length again, with the same
\* max_length, gives that output back.
C19_Idempotent ==
    fmt.pc = "limited_again" => fmt.again = fmt.out

\* the bucket order and the segment labels, as the claims state them
StatedOrder == <<"PRODUCT", "SPECIFICATIONS", "FEATURES", "COOKING_INSTRUCTIONS">>
BucketNames == [key \in Range(StatedOrder) |-> key]
DisplayLabels == [BucketNames EXCEPT !["COOKING_INSTRUCTIONS"] = "COOKING INSTRUCTIONS"]

RECURSIVE Segments(_, _)
\* the pieces of a text between its " | " separators
Segments(s, piece) ==
    IF s = <<>> THEN <<piece>>
    ELSE IF Len(s) >= 3 /\ SubSeq(s, 1, 3) = <<" ", "|", " ">>
    THEN <<piece>> \o Segments(SubSeq(s, 4, Len(s)), <<>>)
    ELSE Segments(Tail(s), Append(piece, Head(s)))

\* out is one "<label>: <content>" segment per non-empty bucket of the
\* description, in the stated order, and empty when there is none
HasShape(out, description, labels) ==
    LET buckets == organize_into_sections(clean_raw_text(description))
        keys    == SelectSeq(StatedOrder, LAMBDA key : buckets[key] # <<>>)
        segs    == IF out = <<>> THEN <<>> ELSE Segments(out, <<>>)
    IN /\ Len(segs) = Len(keys)
       /\ \A k \in DOMAIN segs :
             /\ Len(segs[k]) > 3
             /\ segs[k][1] = labels[keys[k]]
             /\ segs[k][2] = ":" /\ segs[k][3] = " "

\* C20 as stated: format_description returns the empty string or the
\* " | "-joined segments of the non-empty buckets, each exactly once, in the
\* order PRODUCT, SPECIFICATIONS, FEATURES, COOKING_INSTRUCTIONS, each written
\* "<LABEL>: <content>" with the bucket's name as LABEL.
C20_LabelIsBucketName ==
    fmt.pc = "formatted" => HasShape(fmt.out, fmt.text, BucketNames)

\* C20 amended: the same shape, with the label section_labels gives the
\* bucket: its name, except "COOKING INSTRUCTIONS" (a space, no underscore)
\* for COOKING_INSTRUCTIONS.
C20_LabelIsDisplayLabel ==
    fmt.pc = "formatted" => HasShape(fmt.out, fmt.text, DisplayLabels)

\* C20 witness: a description with a plain sentence and a cooking sentence
\* came back as a PRODUCT segment followed by a cooking segment.
C20_Witness ==
    /\ fmt.pc = "formatted"
    /\ Len(Segments(fmt.out, <<>>)) = 2
    /\ fmt.out[1] = "PRODUCT"
    /\ \E i \in DOMAIN fmt.out : fmt.out[i] = "COOKING INSTRUCTIONS"

----------------------------------------------------------------------------
(* Link extraction *)

\* a URL that starts with scheme and host
IsAbsolute(url) == url # <<>> /\ Head(url) = Base

\* C31: every URL that extract_product_links_from_current_page returns is
\* absolute, whatever the shape of the href it was made from (site-relative
\* with a leading slash, relative without one, already absolute)
C31_ReturnedLinksAbsolute ==
    lk.pc = "returned" => \A u \in Range(lk.out) : IsAbsolute(u)

\* the locators of the chain that match an anchor through a pattern of its href
HrefLocators == {k \in DOMAIN product_selectors : product_selectors[k].on = "href*"}

\* C32: when no driver call raised, every anchor of the page that a locator
\* of the chain matches through its href pattern ('/app/product-details/'
\* first of all) is in the set the call returns for the page
C32_MatchedAnchorsCollected ==
    (lk.pc = "returned" /\ ~lk.raised) =>
        \A i \in DOMAIN lk.page :
            (\E k \in HrefLocators : selector_matches(product_selectors[k], lk.page[i]))
                => full_url(lk.page[i].href) \in Range(lk.out)

----------------------------------------------------------------------------
(* The crawler and its caller *)

\* inside extract_all_product_urls
CrawlPcs == {"crawl_goto", "crawl_settle", "crawl_links", "next_page"}

\* C33: whichever driver call raises (the entry navigation, a scroll or a
\* wait, a query, a click), extract_all_product_urls returns to
\* _collect_product_urls a list of the URLs it had collected, the empty one
\* when the entry page did not load; the crawl of a category changes no
\* entry recorded for an earlier category, and neither does recording it
C33_CrawlerNeverRaises ==
    [][ /\ pc \in CrawlPcs =>
             /\ pc' \in CrawlPcs \cup {"record_category"}
             /\ run_result' = "running"
             /\ category_to_urls_map' = category_to_urls_map
        /\ (pc \in CrawlPcs /\ pc' = "record_category") =>
             Range(crawl_result') = Range(product_urls)
        /\ (pc = "crawl_goto" /\ pc' = "record_category") => crawl_result' = <<>>
        /\ pc = "record_category" =>
             /\ Len(category_to_urls_map') >= Len(category_to_urls_map)
             /\ SubSeq(category_to_urls_map', 1, Len(category_to_urls_map))
                   = category_to_urls_map
      ]_vars

\* C33 witness: the crawl of the second category returned without having
\* processed a page (its entry navigation, or the first scroll, raised)
\* while the first category's URLs are recorded
C33_Witness ==
    /\ pc = "record_category"
    /\ ci = 2
    /\ pages_done = 0
    /\ crawl_result = <<>>
    /\ Len(category_to_urls_map) = 1
    /\ category_to_urls_map[1].category = Categories[1]

----------------------------------------------------------------------------
(* The price of a record *)

\* a currency sign followed by a number: digits, with separators only
\* between digits
WellFormedToken(t) == Len(t) >= 2 /\ IsDigit(t[2]) /\ IsDigit(t[Len(t)])

\* C34: when the price text read from the page holds a currency token with
\* other text around it, the price stored on the record is that token
\* alone, which is what clean_price makes of the same text
C34_PriceIsCleanedPrice ==
    (/\ fmt.pc = "price_read"
     /\ WellFormedToken(price_match(fmt.text))
     /\ Len(price_match(fmt.text)) < Len(strip(fmt.text)))
        => (fmt.out = clean_price(fmt.text) /\ fmt.out = price_match(fmt.text))

----------------------------------------------------------------------------
(* Category tagging *)

\* the work-list entry was collected: its url is among the URLs recorded for
\* its category, one of the configured ones
Collected(entry) ==
    /\ entry.category \in Range(Categories)
    /\ \E e \in Range(category_to_urls_map) :
           e.category = entry.category /\ entry.url \in Range(e.urls)

\* C35: every record accepted, by either dispatcher and in every
\* interleaving of the asynchronous one, carries the url of the work-list
\* entry it was extracted for and the category that entry was collected
\* under; the result list holds the accepted records and nothing else
C35_CategoryTagging ==
    pc \in {"scrape_async", "scrape_sequential", "export"} =>
        /\ \A t \in DOMAIN tasks :
              /\ Collected(products_to_process[t])
              /\ tasks[t].result # <<>> =>
                    /\ tasks[t].result[1].url = products_to_process[t].url
                    /\ tasks[t].result[1].category = products_to_process[t].category
        /\ products = IF pc = "scrape_async" THEN <<>>
                      ELSE Accepted([t \in DOMAIN tasks |-> tasks[t].result])

\* C35 witness: the asynchronous dispatcher accepted two records whose
\* extractions were interleaved, so that one was read while the page showed
\* the other's document
C35_WitnessAsync ==
    /\ mode = "async"
    /\ pc = "export"
    /\ Len(products) = 2
    /\ products[1].url # products[2].url
    /\ PageId(products[1].url) # products[1].product_name

\* C35 witness: the sequential dispatcher accepted records of both categories
C35_Witness ==
    /\ mode = "sequential"
    /\ \E i, j \in DOMAIN products :
          products[i].category = Categories[1] /\ products[j].category = Categories[2]

----------------------------------------------------------------------------
(* Teardown *)

\* the resources whose close/stop operation has been invoked
Invoked(m) == {m.invoked[i].resource : i \in DOMAIN m.invoked}

\* C36: once the last close_browser call has returned, every resource that
\* was started has had its close/stop operation invoked, also when closing
\* an earlier one raised; close_browser did not raise, neither on its
\* first call nor on the second one that follows a failed start_browser
C36_CompleteRelease ==
    bm.pc = "closed" =>
        /\ ~bm.close_raised
        /\ bm.close_calls = IF bm.start_failed THEN 2 ELSE 1
        /\ bm.started \subseteq Invoked(bm)

====
